---- MODULE Spec2Model ----
(***************************************************************************)
(* Model of utils/obd2_connector.py: the OBD2Connector state (serial link, *)
(* connected flag, protocol, supported PIDs, DTC count), its operations,   *)
(* and its pure decoders (DTC decoder, PID response parser, sensor         *)
(* decoder).  Python strings are sequences of one-character strings.       *)
(***************************************************************************)
EXTENDS Integers, Sequences, FiniteSets, TLC

VARIABLES
    port,               \* self.port: None or a device path
    serial_connection,  \* self.serial_connection: None, or a link that is open or closed
    connected,          \* self.connected
    protocol,           \* self.protocol: None or the ATDP response
    supported_pids,     \* keys of self.supported_pids
    dtc_count,          \* self.dtc_count
    op,                 \* the method called last
    sent,               \* the commands the last call handed to serial write, in order
    got,                \* the adapter's responses to them, in the same order
    ret,                \* what the last call returned
    last_discovery,     \* the range responses of the latest successful connect(), <<>> before it
    fn_in,              \* arguments of a decoder under test
    fn_out,             \* its result
    fn_pc               \* "input" before the decoder ran, "done" after

connVars == <<port, serial_connection, connected, protocol, supported_pids, dtc_count>>
callVars == <<op, sent, got, ret, last_discovery>>
fnVars == <<fn_in, fn_out, fn_pc>>
vars == <<port, serial_connection, connected, protocol, supported_pids, dtc_count,
          op, sent, got, ret, last_discovery, fn_in, fn_out, fn_pc>>

\* Python's None
None == <<"<None>">>

\* a method call: its name and its argument (None when it takes none)
Call(name, arg) == [name |-> name, arg |-> arg]

\* a serial device path
DevicePath == <<"/dev/ttyUSB0">>

----------------------------------------------------------------------------
\* Python string operations

Min(a, b) == IF a < b THEN a ELSE b

\* s[a:b] with 0 <= a
Slice(s, a, b) == SubSeq(s, a + 1, Min(b, Len(s)))

\* s[a:]
SliceFrom(s, a) == SubSeq(s, a + 1, Len(s))

MatchAt(s, sub, i) == i + Len(sub) <= Len(s) /\ SubSeq(s, i + 1, i + Len(sub)) = sub

\* sub in s
Contains(s, sub) == \E i \in 0..(Len(s) - Len(sub)) : MatchAt(s, sub, i)

\* s.find(sub): the lowest 0-based index, or -1
Find(s, sub) ==
    IF Contains(s, sub)
    THEN CHOOSE i \in 0..(Len(s) - Len(sub)) :
             MatchAt(s, sub, i) /\ \A j \in 0..(i - 1) : ~MatchAt(s, sub, j)
    ELSE -1

\* s.startswith(sub)
StartsWith(s, sub) == MatchAt(s, sub, 0)

\* s.replace(" ", "")
RemoveSpaces(s) == SelectSeq(s, LAMBDA c : c /= " ")

RECURSIVE Concat(_)
Concat(ss) == IF ss = <<>> THEN <<>> ELSE Head(ss) \o Concat(Tail(ss))

NO_DATA == <<"N","O"," ","D","A","T","A">>
ERROR == <<"E","R","R","O","R">>

HexChars == <<"0","1","2","3","4","5","6","7","8","9","A","B","C","D","E","F">>

IsHex(c) == \E i \in 1..16 : HexChars[i] = c

\* int(c, 16) of one hex character
HexVal(c) == (CHOOSE i \in 1..16 : HexChars[i] = c) - 1

----------------------------------------------------------------------------
\* DTC decoder

\* mutant: the chassis and body letters exchanged
DtcLettersSwapped == ("0" :> "P") @@ ("1" :> "B") @@ ("2" :> "C") @@ ("3" :> "U")

DTC_LETTERS == ("0" :> "P") @@ ("1" :> "C") @@ ("2" :> "B") @@ ("3" :> "U")

\* DTC_LETTERS.get(c, "P")
DtcLetter(c) == IF c \in DOMAIN DTC_LETTERS THEN DTC_LETTERS[c] ELSE "P"

dtc_descriptions ==
    <<"P","0","1","0","0">> :> "Mass or Volume Air Flow Circuit Malfunction"
    @@ <<"P","0","1","0","1">> :> "Mass or Volume Air Flow Circuit Range/Performance Problem"
    @@ <<"P","0","1","0","2">> :> "Mass or Volume Air Flow Circuit Low Input"
    @@ <<"P","0","1","0","3">> :> "Mass or Volume Air Flow Circuit High Input"
    @@ <<"P","0","1","0","4">> :> "Mass or Volume Air Flow Circuit Intermittent"
    @@ <<"P","0","1","0","5">> :> "Manifold Absolute Pressure/Barometric Pressure Circuit Malfunction"
    @@ <<"P","0","1","0","6">> :> "Manifold Absolute Pressure/Barometric Pressure Circuit Range/Performance Problem"
    @@ <<"P","0","1","0","7">> :> "Manifold Absolute Pressure/Barometric Pressure Circuit Low Input"
    @@ <<"P","0","1","0","8">> :> "Manifold Absolute Pressure/Barometric Pressure Circuit High Input"
    @@ <<"P","0","1","0","9">> :> "Manifold Absolute Pressure/Barometric Pressure Circuit Intermittent"
    @@ <<"P","0","1","1","0">> :> "Intake Air Temperature Circuit Malfunction"
    @@ <<"P","0","1","1","1">> :> "Intake Air Temperature Circuit Range/Performance Problem"
    @@ <<"P","0","1","1","2">> :> "Intake Air Temperature Circuit Low Input"
    @@ <<"P","0","1","1","3">> :> "Intake Air Temperature Circuit High Input"
    @@ <<"P","0","1","1","4">> :> "Intake Air Temperature Circuit Intermittent"
    @@ <<"P","0","1","1","5">> :> "Engine Coolant Temperature Circuit Malfunction"
    @@ <<"P","0","1","1","6">> :> "Engine Coolant Temperature Circuit Range/Performance Problem"
    @@ <<"P","0","1","1","7">> :> "Engine Coolant Temperature Circuit Low Input"
    @@ <<"P","0","1","1","8">> :> "Engine Coolant Temperature Circuit High Input"
    @@ <<"P","0","1","1","9">> :> "Engine Coolant Temperature Circuit Intermittent"
    @@ <<"P","0","1","2","0">> :> "Throttle/Pedal Position Sensor/Switch A Circuit Malfunction"
    @@ <<"P","0","1","2","1">> :> "Throttle/Pedal Position Sensor/Switch A Circuit Range/Performance Problem"
    @@ <<"P","0","1","2","2">> :> "Throttle/Pedal Position Sensor/Switch A Circuit Low Input"
    @@ <<"P","0","1","2","3">> :> "Throttle/Pedal Position Sensor/Switch A Circuit High Input"
    @@ <<"P","0","1","2","4">> :> "Throttle/Pedal Position Sensor/Switch A Circuit Intermittent"
    @@ <<"P","0","1","2","5">> :> "Insufficient Coolant Temperature for Closed Loop Fuel Control"
    @@ <<"P","0","1","2","6">> :> "Insufficient Coolant Temperature for Stable Operation"
    @@ <<"P","0","1","2","7">> :> "Intake Air Temperature Too High"
    @@ <<"P","0","1","2","8">> :> "Coolant Thermostat (Coolant Temperature Below Thermostat Regulating Temperature)"
    @@ <<"P","0","1","2","9">> :> "Barometric Pressure Too Low"
    @@ <<"P","0","1","3","0">> :> "O2 Sensor Circuit Malfunction (Bank 1 Sensor 1)"
    @@ <<"P","0","1","3","1">> :> "O2 Sensor Circuit Low Voltage (Bank 1 Sensor 1)"
    @@ <<"P","0","1","3","2">> :> "O2 Sensor Circuit High Voltage (Bank 1 Sensor 1)"
    @@ <<"P","0","1","3","3">> :> "O2 Sensor Circuit Slow Response (Bank 1 Sensor 1)"
    @@ <<"P","0","1","3","4">> :> "O2 Sensor Circuit No Activity Detected (Bank 1 Sensor 1)"
    @@ <<"P","0","1","3","5">> :> "O2 Sensor Heater Circuit Malfunction (Bank 1 Sensor 1)"
    @@ <<"P","0","1","3","6">> :> "O2 Sensor Circuit Malfunction (Bank 1 Sensor 2)"
    @@ <<"P","0","1","3","7">> :> "O2 Sensor Circuit Low Voltage (Bank 1 Sensor 2)"
    @@ <<"P","0","1","3","8">> :> "O2 Sensor Circuit High Voltage (Bank 1 Sensor 2)"
    @@ <<"P","0","1","3","9">> :> "O2 Sensor Circuit Slow Response (Bank 1 Sensor 2)"
    @@ <<"P","0","1","4","0">> :> "O2 Sensor Circuit No Activity Detected (Bank 1 Sensor 2)"
    @@ <<"P","0","1","4","1">> :> "O2 Sensor Heater Circuit Malfunction (Bank 1 Sensor 2)"
    @@ <<"P","0","1","4","2">> :> "O2 Sensor Circuit Malfunction (Bank 1 Sensor 3)"
    @@ <<"P","0","1","4","3">> :> "O2 Sensor Circuit Low Voltage (Bank 1 Sensor 3)"
    @@ <<"P","0","1","4","4">> :> "O2 Sensor Circuit High Voltage (Bank 1 Sensor 3)"
    @@ <<"P","0","1","4","5">> :> "O2 Sensor Circuit Slow Response (Bank 1 Sensor 3)"
    @@ <<"P","0","1","4","6">> :> "O2 Sensor Circuit No Activity Detected (Bank 1 Sensor 3)"
    @@ <<"P","0","1","4","7">> :> "O2 Sensor Heater Circuit Malfunction (Bank 1 Sensor 3)"
    @@ <<"P","0","1","4","8">> :> "Fuel Delivery Error"
    @@ <<"P","0","1","4","9">> :> "Fuel Timing Error"
    @@ <<"P","0","1","5","0">> :> "O2 Sensor Circuit Malfunction (Bank 2 Sensor 1)"
    @@ <<"P","0","1","5","1">> :> "O2 Sensor Circuit Low Voltage (Bank 2 Sensor 1)"
    @@ <<"P","0","1","5","2">> :> "O2 Sensor Circuit High Voltage (Bank 2 Sensor 1)"
    @@ <<"P","0","1","5","3">> :> "O2 Sensor Circuit Slow Response (Bank 2 Sensor 1)"
    @@ <<"P","0","1","5","4">> :> "O2 Sensor Circuit No Activity Detected (Bank 2 Sensor 1)"
    @@ <<"P","0","1","5","5">> :> "O2 Sensor Heater Circuit Malfunction (Bank 2 Sensor 1)"
    @@ <<"P","0","1","5","6">> :> "O2 Sensor Circuit Malfunction (Bank 2 Sensor 2)"
    @@ <<"P","0","1","5","7">> :> "O2 Sensor Circuit Low Voltage (Bank 2 Sensor 2)"
    @@ <<"P","0","1","5","8">> :> "O2 Sensor Circuit High Voltage (Bank 2 Sensor 2)"
    @@ <<"P","0","1","5","9">> :> "O2 Sensor Circuit Slow Response (Bank 2 Sensor 2)"
    @@ <<"P","0","1","6","0">> :> "O2 Sensor Circuit No Activity Detected (Bank 2 Sensor 2)"
    @@ <<"P","0","1","6","1">> :> "O2 Sensor Heater Circuit Malfunction (Bank 2 Sensor 2)"
    @@ <<"P","0","1","6","2">> :> "O2 Sensor Circuit Malfunction (Bank 2 Sensor 3)"
    @@ <<"P","0","1","6","3">> :> "O2 Sensor Circuit Low Voltage (Bank 2 Sensor 3)"
    @@ <<"P","0","1","6","4">> :> "O2 Sensor Circuit High Voltage (Bank 2 Sensor 3)"
    @@ <<"P","0","1","6","5">> :> "O2 Sensor Circuit Slow Response (Bank 2 Sensor 3)"
    @@ <<"P","0","1","6","6">> :> "O2 Sensor Circuit No Activity Detected (Bank 2 Sensor 3)"
    @@ <<"P","0","1","6","7">> :> "O2 Sensor Heater Circuit Malfunction (Bank 2 Sensor 3)"
    @@ <<"P","0","1","6","8">> :> "Fuel Temperature Too High"
    @@ <<"P","0","1","6","9">> :> "Incorrect Fuel Composition"
    @@ <<"P","0","1","7","0">> :> "Fuel Trim Malfunction (Bank 1)"
    @@ <<"P","0","1","7","1">> :> "System Too Lean (Bank 1)"
    @@ <<"P","0","1","7","2">> :> "System Too Rich (Bank 1)"
    @@ <<"P","0","1","7","3">> :> "Fuel Trim Malfunction (Bank 2)"
    @@ <<"P","0","1","7","4">> :> "System Too Lean (Bank 2)"
    @@ <<"P","0","1","7","5">> :> "System Too Rich (Bank 2)"
    @@ <<"P","0","1","7","6">> :> "Fuel Composition Sensor Circuit Malfunction"
    @@ <<"P","0","1","7","7">> :> "Fuel Composition Sensor Circuit Range/Performance"
    @@ <<"P","0","1","7","8">> :> "Fuel Composition Sensor Circuit Low Input"
    @@ <<"P","0","1","7","9">> :> "Fuel Composition Sensor Circuit High Input"
    @@ <<"P","0","1","8","0">> :> "Fuel Temperature Sensor A Circuit Malfunction"
    @@ <<"P","0","3","0","1">> :> "Cylinder 1 Misfire Detected"
    @@ <<"P","0","3","0","2">> :> "Cylinder 2 Misfire Detected"
    @@ <<"P","0","3","0","3">> :> "Cylinder 3 Misfire Detected"
    @@ <<"P","0","3","0","4">> :> "Cylinder 4 Misfire Detected"
    @@ <<"P","0","3","0","5">> :> "Cylinder 5 Misfire Detected"
    @@ <<"P","0","3","0","6">> :> "Cylinder 6 Misfire Detected"
    @@ <<"P","0","4","2","0">> :> "Catalyst System Efficiency Below Threshold (Bank 1)"
    @@ <<"P","0","4","3","0">> :> "Catalyst System Efficiency Below Threshold (Bank 2)"
    @@ <<"P","0","4","4","0">> :> "Evaporative Emission Control System Malfunction"
    @@ <<"P","0","4","4","2">> :> "Evaporative Emission Control System Leak Detected (Small Leak)"
    @@ <<"P","0","4","4","6">> :> "Evaporative Emission Control System Vent Control Circuit Malfunction"
    @@ <<"P","0","4","5","6">> :> "Evaporative Emission Control System Leak Detected (Very Small Leak)"
    @@ <<"P","0","7","0","0">> :> "Transmission Control System Malfunction"

UnknownDescription == "Unknown code description"

\* dtc_descriptions.get(dtc_code, "Unknown code description")
GetDtcDescription(dtc_code) ==
    IF dtc_code \in DOMAIN dtc_descriptions
    THEN dtc_descriptions[dtc_code]
    ELSE UnknownDescription

\* the code formed from one 4-character slot
DtcCode(dtc_hex) ==
    LET dtc_type_char == DtcLetter(dtc_hex[1])
        dtc_group == dtc_hex[2]
        dtc_specific == Slice(dtc_hex, 2, 4)
    IN  <<dtc_type_char, dtc_group>> \o dtc_specific

DtcEntry(dtc_hex, dtc_type) ==
    [code |-> DtcCode(dtc_hex),
     description |-> GetDtcDescription(DtcCode(dtc_hex)),
     type |-> dtc_type]

\* mutant: a 0000 slot is emitted like any other
RECURSIVE DtcLoopNoSkip(_, _, _, _)
DtcLoopNoSkip(data, i, dtc_type, dtcs) ==
    IF i >= Len(data) THEN dtcs
    ELSE IF i + 3 < Len(data)
         THEN DtcLoopNoSkip(data, i + 4, dtc_type,
                            Append(dtcs, DtcEntry(Slice(data, i, i + 4), dtc_type)))
         ELSE DtcLoopNoSkip(data, i + 4, dtc_type, dtcs)

\* mutant: the bound test is off by one, so the last complete slot is lost
RECURSIVE DtcLoopOffByOne(_, _, _, _)
DtcLoopOffByOne(data, i, dtc_type, dtcs) ==
    IF i >= Len(data) THEN dtcs
    ELSE IF i + 4 < Len(data)
         THEN LET dtc_hex == Slice(data, i, i + 4)
              IN  IF dtc_hex = <<"0","0","0","0">>
                  THEN DtcLoopOffByOne(data, i + 4, dtc_type, dtcs)
                  ELSE DtcLoopOffByOne(data, i + 4, dtc_type,
                                       Append(dtcs, DtcEntry(dtc_hex, dtc_type)))
         ELSE DtcLoopOffByOne(data, i + 4, dtc_type, dtcs)

\* for i in range(0, len(data), 4): ...
RECURSIVE DtcLoop(_, _, _, _)
DtcLoop(data, i, dtc_type, dtcs) ==
    IF i >= Len(data) THEN dtcs
    ELSE IF i + 3 < Len(data)
         THEN LET dtc_hex == Slice(data, i, i + 4)
              IN  IF dtc_hex = <<"0","0","0","0">>
                  THEN DtcLoop(data, i + 4, dtc_type, dtcs)
                  ELSE DtcLoop(data, i + 4, dtc_type,
                               Append(dtcs, DtcEntry(dtc_hex, dtc_type)))
         ELSE DtcLoop(data, i + 4, dtc_type, dtcs)

DtcKinds == {"stored", "pending", "permanent"}

DtcPrefix(dtc_type) ==
    CASE dtc_type = "stored" -> <<"4","3">>
      [] dtc_type = "pending" -> <<"4","7">>
      [] dtc_type = "permanent" -> <<"4","A">>

\* _parse_dtcs(response, dtc_type)
ParseDtcs(response, dtc_type) ==
    IF response = <<>> \/ Contains(response, NO_DATA) \/ Contains(response, ERROR)
    THEN <<>>
    ELSE LET r == RemoveSpaces(response)
         IN  IF dtc_type \notin DtcKinds THEN <<>>
             ELSE LET prefix == DtcPrefix(dtc_type)
                      prefix_pos == Find(r, prefix)
                  IN  IF prefix_pos = -1 THEN <<>>
                      ELSE DtcLoop(SliceFrom(r, prefix_pos + Len(prefix)), 0, dtc_type, <<>>)

----------------------------------------------------------------------------
\* PID response parser

ERROR_CODES ==
    { <<"7","F">>, NO_DATA, <<"B","U","S"," ","I","N","I","T",":"," ">> \o ERROR,
      <<"?">>, <<"S","E","A","R","C","H","I","N","G">>,
      <<"C","A","N"," ">> \o ERROR }

\* _parse_pid_response(response, pid): None, or the data after mode+pid
ParsePidResponse(response, pid) ==
    IF response = <<>> \/ \E error \in ERROR_CODES : Contains(response, error)
    THEN None
    ELSE LET r == RemoveSpaces(response)
             expected_prefix == <<"4","1">> \o pid
         IN  IF r = <<>> THEN None
             ELSE IF StartsWith(r, expected_prefix) THEN SliceFrom(r, 4)
             ELSE LET data_start == Find(r, expected_prefix)
                  IN  IF data_start >= 0
                      THEN SliceFrom(SliceFrom(r, data_start), 4)
                      ELSE None

\* "if not data": None or the empty string
Falsy(data) == data = None \/ data = <<>>

----------------------------------------------------------------------------
\* Sensor decoder

PID_ENGINE_LOAD == <<"0","4">>
PID_COOLANT_TEMP == <<"0","5">>
PID_SHORT_FUEL_TRIM_1 == <<"0","6">>
PID_LONG_FUEL_TRIM_1 == <<"0","7">>
PID_SHORT_FUEL_TRIM_2 == <<"0","8">>
PID_LONG_FUEL_TRIM_2 == <<"0","9">>
PID_FUEL_PRESSURE == <<"0","A">>
PID_INTAKE_PRESSURE == <<"0","B">>
PID_RPM == <<"0","C">>
PID_SPEED == <<"0","D">>
PID_TIMING_ADVANCE == <<"0","E">>
PID_INTAKE_TEMP == <<"0","F">>
PID_MAF == <<"1","0">>
PID_THROTTLE == <<"1","1">>
PID_RUN_TIME == <<"1","F">>

\* format(b, '02X')
Hex2(b) == <<HexChars[(b \div 16) + 1], HexChars[(b % 16) + 1]>>

\* the complete pairs data[i:i+2] with i+1 < len(data)
HexPairs(data) == [k \in 1..(Len(data) \div 2) |-> <<data[2 * k - 1], data[2 * k]>>]

\* int(hex_pair, 16) raises ValueError
BadPair(hex_pair) == ~IsHex(hex_pair[1]) \/ ~IsHex(hex_pair[2])

DataBytes(data) ==
    [k \in 1..(Len(data) \div 2) |->
        HexVal(HexPairs(data)[k][1]) * 16 + HexVal(HexPairs(data)[k][2])]

\* a number n/d (Python int or float)
Rat(n, d) == [num |-> n, den |-> d]

Reading(name, value, unit) == [name |-> name, value |-> value, unit |-> unit]

\* how many of data_bytes the branch for pid indexes
BytesUsed(pid) ==
    IF pid \in {PID_RPM, PID_MAF, PID_RUN_TIME} THEN 2
    ELSE IF pid \in {PID_ENGINE_LOAD, PID_COOLANT_TEMP, PID_SHORT_FUEL_TRIM_1,
                     PID_LONG_FUEL_TRIM_1, PID_SHORT_FUEL_TRIM_2, PID_LONG_FUEL_TRIM_2,
                     PID_FUEL_PRESSURE, PID_INTAKE_PRESSURE, PID_SPEED,
                     PID_TIMING_ADVANCE, PID_INTAKE_TEMP, PID_THROTTLE} THEN 1
    ELSE 0

\* mutant: the two bytes taken in the other order
RpmValueSwapped(b) == Rat((b[2] * 256) + b[1], 4)

\* ((data_bytes[0] * 256) + data_bytes[1]) / 4.0
RpmValue(b) == Rat((b[1] * 256) + b[2], 4)

\* mutant: the offset of 40 is left out
CoolantValueNoOffset(b) == Rat(b[1], 1)

\* data_bytes[0] - 40
CoolantValue(b) == Rat(b[1] - 40, 1)

RECURSIVE JoinHex(_)
\* ' '.join([format(b, '02X') for b in data_bytes])
JoinHex(b) ==
    IF b = <<>> THEN <<>>
    ELSE IF Len(b) = 1 THEN Hex2(b[1])
    ELSE Hex2(b[1]) \o <<" ">> \o JoinHex(Tail(b))

\* the except branch of _decode_pid
DecodeErrorResult(pid) == Reading(<<"PID", pid>>, Rat(0, 1), "error")

\* the if/elif chain of _decode_pid over data_bytes b; the units written "C" and
\* "deg" are the degree-sign units of the source
DecodeBranch(pid, b) ==
    CASE pid = PID_ENGINE_LOAD -> Reading("Engine Load", Rat(b[1] * 100, 255), "%")
      [] pid = PID_COOLANT_TEMP -> Reading("Coolant Temperature", CoolantValue(b), "C")
      [] pid = PID_SHORT_FUEL_TRIM_1 ->
             Reading("Short Term Fuel Trim - Bank 1", Rat((b[1] - 128) * 100, 128), "%")
      [] pid = PID_LONG_FUEL_TRIM_1 ->
             Reading("Long Term Fuel Trim - Bank 1", Rat((b[1] - 128) * 100, 128), "%")
      [] pid = PID_SHORT_FUEL_TRIM_2 ->
             Reading("Short Term Fuel Trim - Bank 2", Rat((b[1] - 128) * 100, 128), "%")
      [] pid = PID_LONG_FUEL_TRIM_2 ->
             Reading("Long Term Fuel Trim - Bank 2", Rat((b[1] - 128) * 100, 128), "%")
      [] pid = PID_FUEL_PRESSURE -> Reading("Fuel Pressure", Rat(b[1] * 3, 1), "kPa")
      [] pid = PID_INTAKE_PRESSURE -> Reading("Intake Manifold Pressure", Rat(b[1], 1), "kPa")
      [] pid = PID_RPM -> Reading("Engine RPM", RpmValue(b), "rpm")
      [] pid = PID_SPEED -> Reading("Vehicle Speed", Rat(b[1], 1), "km/h")
      [] pid = PID_TIMING_ADVANCE -> Reading("Timing Advance", Rat(b[1] - 128, 2), "deg")
      [] pid = PID_INTAKE_TEMP -> Reading("Intake Air Temperature", Rat(b[1] - 40, 1), "C")
      [] pid = PID_MAF -> Reading("Mass Air Flow", Rat((b[1] * 256) + b[2], 100), "g/s")
      [] pid = PID_THROTTLE -> Reading("Throttle Position", Rat(b[1] * 100, 255), "%")
      [] pid = PID_RUN_TIME ->
             Reading("Run Time Since Engine Start", Rat((b[1] * 256) + b[2], 1), "s")
      [] OTHER -> Reading(<<"PID", pid>>, JoinHex(b), "hex")

\* _decode_pid(pid, data): a ValueError of int() or an IndexError of data_bytes[k]
\* lands in the except branch
DecodePid(pid, data) ==
    IF \E k \in 1..(Len(data) \div 2) : BadPair(HexPairs(data)[k])
    THEN DecodeErrorResult(pid)
    ELSE IF Len(DataBytes(data)) < BytesUsed(pid)
         THEN DecodeErrorResult(pid)
         ELSE DecodeBranch(pid, DataBytes(data))

----------------------------------------------------------------------------
\* State after __init__

ConnInit ==
    /\ port \in {None, DevicePath}
    /\ serial_connection = "None"
    /\ connected = FALSE
    /\ protocol = None
    /\ supported_pids = {}
    /\ dtc_count = 0
    /\ op = Call("__init__", None)
    /\ sent = <<>>
    /\ got = <<>>
    /\ ret = None
    /\ last_discovery = <<>>

----------------------------------------------------------------------------
\* Capability discovery

pid_ranges == << <<"0","0">>, <<"2","0">>, <<"4","0">>, <<"6","0">>,
                 <<"8","0">>, <<"A","0">>, <<"C","0">>, <<"E","0">> >>

\* int(s, 16) of a two-character hex string
Int16(s) == HexVal(s[1]) * 16 + HexVal(s[2])

\* format(n, '02X'): at least two hex digits
FormatX2(n) == IF n < 256 THEN Hex2(n) ELSE <<HexChars[(n \div 256) + 1]>> \o Hex2(n % 256)

\* format(value, '08b') as a sequence of 0/1, most significant bit first
Bin8(value) == [j \in 1..8 |-> (value \div (2 ^ (8 - j))) % 2]

RECURSIVE BinaryOf(_)
\* binary: the concatenated '08b' strings of the bytes
BinaryOf(bytes) == IF bytes = <<>> THEN <<>> ELSE Bin8(Head(bytes)) \o BinaryOf(Tail(bytes))

\* the PIDs one pass of the loop body adds for range_start, given the response
RangePids(range_start, response) ==
    LET data == ParsePidResponse(response, range_start)
    IN  IF Falsy(data) THEN {}
        ELSE IF \E k \in 1..(Len(data) \div 2) : BadPair(HexPairs(data)[k]) THEN {}
        ELSE LET binary == BinaryOf(DataBytes(data))
                 start_pid == Int16(range_start) + 1
             IN  { FormatX2(start_pid + (i - 1)) : i \in { j \in 1..Len(binary) : binary[j] = 1 } }

\* the PIDs the loop adds, given the response to each range probe
LoopPids(responses) ==
    UNION { RangePids(pid_ranges[k], responses[k]) : k \in 1..Len(pid_ranges) }

\* _get_supported_pids: supported_pids after the loop, given the old keys and the
\* PIDs the loop adds (keys are only ever set, never removed)
Discover(old, added) == old \cup added

RangeCommands == [k \in 1..Len(pid_ranges) |-> <<"0","1">> \o pid_ranges[k]]

\* is_pid_supported(pid)
IsPidSupported(pid) == pid \in supported_pids

----------------------------------------------------------------------------
\* Serial transport

LinkOpen == serial_connection = "open"

ATZ == <<"A","T","Z">>
ATE0 == <<"A","T","E","0">>
ATL0 == <<"A","T","L","0">>
ATS0 == <<"A","T","S","0">>
ATH0 == <<"A","T","H","0">>
ATAT1 == <<"A","T","A","T","1">>
ATSP0 == <<"A","T","S","P","0">>
ATDP == <<"A","T","D","P">>
Probe0100 == <<"0","1","0","0">>

OK == <<"O","K">>

\* stands, as an answer, for serial_connection.write() raising
WriteFails == <<"<write raises>">>

\* _send_command(command) on a link in state link, the adapter answering answer:
\* what is written, what is returned, and whether an exception leaves the method
\* (every path, the except branch included, ends in a return)
SendCommand(link, command, answer) ==
    IF link /= "open"
    THEN [written |-> <<>>, response |-> ERROR, raises |-> FALSE]
    ELSE IF answer = WriteFails
    THEN [written |-> <<>>, response |-> ERROR, raises |-> FALSE]
    ELSE [written |-> <<command>>, response |-> answer, raises |-> FALSE]

----------------------------------------------------------------------------
\* What the adapter and the vehicle may answer

CAN_ERROR == <<"C","A","N"," ">> \o ERROR

\* answers to the 0100 probe of connect(): a bitmask, NO DATA, nothing within the
\* timeout, the "?" of an unknown command, CAN ERROR
ProbeAnswers ==
    { <<"4","1","0","0","0","8","1","8","0","0","0","1">>, NO_DATA, <<>>, <<"?">>, CAN_ERROR }

\* answers to ATDP
ProtocolAnswers == { <<"I","S","O"," ","1","5","7","6","5","-","4">>, <<>> }

ConfigCommands == <<ATE0, ATL0, ATS0, ATH0, ATAT1, ATSP0>>

\* the answers to ATZ and the configuration commands (connect() reads none of them)
InitAnswers == << <<"E","L","M","3","2","7">> >> \o [k \in 1..Len(ConfigCommands) |-> OK]

\* the answers to ATZ and the configuration commands that are tried: all OK, the "?"
\* of an adapter that does not know ATAT1, the ERROR of a failed exchange for ATE0
InitAnswerSets ==
    { InitAnswers, [InitAnswers EXCEPT ![6] = <<"?">>], [InitAnswers EXCEPT ![2] = ERROR] }

\* answers of four vehicles to the eight range probes:
\*   1: range 00 announces 05 0C 0D 20, range 20 announces 21 40, range 40 announces 41
\*   2: range 00 announces 0C only
\*   3: range 00 times out, range 20 has NO DATA, range 40 announces 42
\*   4: NO DATA for every range
Discoveries ==
    { << <<"4","1","0","0","0","8","1","8","0","0","0","1">>,
         <<"4","1","2","0","8","0","0","0","0","0","0","1">>,
         <<"4","1","4","0","8","0","0","0","0","0","0","0">>,
         NO_DATA, NO_DATA, NO_DATA, NO_DATA, NO_DATA >>,
      << <<"4","1","0","0","0","0","1","0","0","0","0","0">>,
         NO_DATA, NO_DATA, NO_DATA, NO_DATA, NO_DATA, NO_DATA, NO_DATA >>,
      << <<>>, NO_DATA,
         <<"4","1","4","0","4","0","0","0","0","0","0","0">>,
         NO_DATA, NO_DATA, NO_DATA, NO_DATA, NO_DATA >>,
      << NO_DATA, NO_DATA, NO_DATA, NO_DATA, NO_DATA, NO_DATA, NO_DATA, NO_DATA >> }

\* the PIDs the discovery loop adds for each of them
DiscoveredPids == [disc \in Discoveries |-> LoopPids(disc)]

\* how a Mode 01 request may be answered: in full, not at all within the timeout,
\* cut short inside the payload, cut short right after mode and PID, with NO DATA,
\* with a payload that is not hex
AnswerKinds == {"valid", "empty", "partial", "prefix", "nodata", "garbled"}

ValidPayload(pid) ==
    IF BytesUsed(pid) = 2 THEN <<"1","A","F","8">> ELSE <<"5","A">>

PidAnswer(pid, kind) ==
    CASE kind = "valid" -> <<"4","1">> \o pid \o ValidPayload(pid)
      [] kind = "empty" -> <<>>
      [] kind = "partial" ->
             <<"4","1">> \o pid \o SubSeq(ValidPayload(pid), 1, Len(ValidPayload(pid)) - 1)
      [] kind = "prefix" -> <<"4","1">> \o pid
      [] kind = "nodata" -> NO_DATA
      [] kind = "garbled" -> <<"4","1">> \o pid \o <<"G">> \o Tail(ValidPayload(pid))

\* the answers tried for each request of a live-data read
LiveAnswerKinds == {"valid", "empty", "partial"}

\* the PIDs callers ask read_pid for
AskedPids == { PID_ENGINE_LOAD, PID_COOLANT_TEMP, PID_RPM, PID_SPEED, <<"2","1">>, <<"4","2">> }

----------------------------------------------------------------------------
\* Connector operations

\* connect(): no port is known and none is found
ConnectNoPort ==
    /\ port = None
    /\ ret' = FALSE
    /\ sent' = <<>>
    /\ got' = <<>>
    /\ UNCHANGED <<port, serial_connection, connected, protocol, supported_pids,
                   last_discovery>>

\* connect(): serial.Serial(...) raises SerialException
ConnectOpenRaises ==
    /\ ret' = FALSE
    /\ sent' = <<>>
    /\ got' = <<>>
    /\ UNCHANGED <<serial_connection, connected, protocol, supported_pids, last_discovery>>

\* connect(): reset_input_buffer() raises on the new link
ConnectResetRaises ==
    /\ serial_connection' = "open"
    /\ ret' = FALSE
    /\ sent' = <<>>
    /\ got' = <<>>
    /\ UNCHANGED <<connected, protocol, supported_pids, last_discovery>>

\* the answers tried together in one connect(): a configuration command is answered by
\* an error only next to the bitmask answer to the probe, and ATDP is left unanswered
\* only when the probe was
AnswersTried(init, probe, dp) ==
    /\ init /= InitAnswers => (Len(probe) = 12 /\ dp /= <<>>)
    /\ dp = <<>> => probe = <<>>

\* mutant: the flag is raised as soon as the adapter is configured, before the probe
ConnectProbeEarlyFlag ==
    \E init \in InitAnswerSets, probe \in ProbeAnswers :
        /\ serial_connection' = "open"
        /\ connected' = TRUE
        /\ IF Contains(probe, NO_DATA) \/ Contains(probe, ERROR)
           THEN /\ init = InitAnswers
                /\ ret' = FALSE
                /\ sent' = <<ATZ>> \o ConfigCommands \o <<Probe0100>>
                /\ got' = init \o <<probe>>
                /\ UNCHANGED <<protocol, supported_pids, last_discovery>>
           ELSE \E dp \in ProtocolAnswers, disc \in Discoveries :
                /\ AnswersTried(init, probe, dp)
                /\ protocol' = dp
                /\ supported_pids' = Discover(supported_pids, DiscoveredPids[disc])
                /\ ret' = TRUE
                /\ sent' = <<ATZ>> \o ConfigCommands \o <<Probe0100, ATDP>> \o RangeCommands
                /\ got' = init \o <<probe, dp>> \o disc
                /\ last_discovery' = disc

\* connect(): the link opens and the adapter is initialized and probed
ConnectProbe ==
    \E init \in InitAnswerSets, probe \in ProbeAnswers :
        /\ serial_connection' = "open"
        /\ IF Contains(probe, NO_DATA) \/ Contains(probe, ERROR)
           THEN /\ init = InitAnswers
                /\ ret' = FALSE
                /\ sent' = <<ATZ>> \o ConfigCommands \o <<Probe0100>>
                /\ got' = init \o <<probe>>
                /\ UNCHANGED <<connected, protocol, supported_pids, last_discovery>>
           ELSE \E dp \in ProtocolAnswers, disc \in Discoveries :
                /\ AnswersTried(init, probe, dp)
                /\ protocol' = dp
                /\ supported_pids' = Discover(supported_pids, DiscoveredPids[disc])
                /\ connected' = TRUE
                /\ ret' = TRUE
                /\ sent' = <<ATZ>> \o ConfigCommands \o <<Probe0100, ATDP>> \o RangeCommands
                /\ got' = init \o <<probe, dp>> \o disc
                /\ last_discovery' = disc

\* connect()
Connect ==
    /\ op' = Call("connect", None)
    /\ UNCHANGED <<dtc_count, fnVars>>
    /\ \/ ConnectNoPort
       \/ /\ port' = IF port = None THEN DevicePath ELSE port
          /\ (ConnectOpenRaises \/ ConnectResetRaises \/ ConnectProbe)

\* mutant: the guard on the link is missing, so close() is called on whatever
\* serial_connection holds (None has no close(): the except branch returns False)
DisconnectUnguarded ==
    \E closing \in {"ok", "raises"} :
        /\ op' = Call("disconnect", None)
        /\ UNCHANGED <<port, protocol, supported_pids, dtc_count, last_discovery, fnVars>>
        /\ sent' = SendCommand(serial_connection, ATZ, OK).written
        /\ got' = <<SendCommand(serial_connection, ATZ, OK).response>>
        /\ IF closing = "ok" /\ serial_connection /= "None"
           THEN /\ serial_connection' = "closed"
                /\ connected' = FALSE
                /\ ret' = TRUE
           ELSE /\ ret' = FALSE
                /\ UNCHANGED <<serial_connection, connected>>

\* disconnect()
Disconnect ==
    \E closing \in {"ok", "raises"} :
        /\ op' = Call("disconnect", None)
        /\ UNCHANGED <<port, protocol, supported_pids, dtc_count, last_discovery, fnVars>>
        /\ IF LinkOpen
           THEN /\ sent' = SendCommand(serial_connection, ATZ, OK).written
                /\ got' = <<SendCommand(serial_connection, ATZ, OK).response>>
                /\ IF closing = "ok"
                   THEN /\ serial_connection' = "closed"
                        /\ connected' = FALSE
                        /\ ret' = TRUE
                   ELSE \* close() raises
                        /\ ret' = FALSE
                        /\ UNCHANGED <<serial_connection, connected>>
           ELSE /\ ret' = TRUE
                /\ sent' = <<>>
                /\ got' = <<>>
                /\ UNCHANGED <<serial_connection, connected>>

\* result['raw_response'] = response
WithRaw(result, response) ==
    [name |-> result.name, value |-> result.value, unit |-> result.unit,
     raw_response |-> response]

\* mutant: the capability table is not consulted
ReadPidUnchecked(isConnected, supported, link, pid, answer) ==
    IF ~isConnected
    THEN [written |-> <<>>, got |-> <<>>, result |-> <<>>]
    ELSE LET io == SendCommand(link, <<"0","1">> \o pid, answer)
             data == ParsePidResponse(io.response, pid)
         IN  [written |-> io.written, got |-> <<io.response>>,
              result |-> IF Falsy(data) THEN <<>>
                         ELSE <<WithRaw(DecodePid(pid, data), io.response)>>]

\* read_pid(pid) with the adapter answering answer: what is written, what comes
\* back, and the returned value: <<>> for None, or <<reading with raw_response>>
ReadPid(isConnected, supported, link, pid, answer) ==
    IF ~isConnected
    THEN [written |-> <<>>, got |-> <<>>, result |-> <<>>]
    ELSE IF pid \notin supported
    THEN [written |-> <<>>, got |-> <<>>, result |-> <<>>]
    ELSE LET io == SendCommand(link, <<"0","1">> \o pid, answer)
             data == ParsePidResponse(io.response, pid)
         IN  [written |-> io.written, got |-> <<io.response>>,
              result |-> IF Falsy(data) THEN <<>>
                         ELSE <<WithRaw(DecodePid(pid, data), io.response)>>]

ReadPidCall ==
    \E pid \in AskedPids, kind \in AnswerKinds :
        LET r == ReadPid(connected, supported_pids, serial_connection, pid, PidAnswer(pid, kind))
        IN  /\ op' = Call("read_pid", pid)
            /\ sent' = r.written
            /\ got' = r.got
            /\ ret' = r.result
            /\ UNCHANGED <<connVars, last_discovery, fnVars>>

pids_to_try ==
    << PID_ENGINE_LOAD, PID_COOLANT_TEMP, PID_SHORT_FUEL_TRIM_1, PID_LONG_FUEL_TRIM_1,
       PID_SHORT_FUEL_TRIM_2, PID_LONG_FUEL_TRIM_2, PID_FUEL_PRESSURE,
       PID_INTAKE_PRESSURE, PID_RPM, PID_SPEED, PID_TIMING_ADVANCE, PID_INTAKE_TEMP,
       PID_MAF, PID_THROTTLE, PID_RUN_TIME >>

Range(seq) == { seq[k] : k \in 1..Len(seq) }

\* read_all_sensor_data(), read[pid] being what self.read_pid(pid) does for a supported
\* pid: what is written, what comes back, and the returned dictionary
ReadAll(isConnected, supported, read) ==
    IF ~isConnected
    THEN [written |-> <<>>, got |-> <<>>, result |-> <<>>]
    ELSE LET tried == SelectSeq(pids_to_try, LAMBDA pid : pid \in supported)
         IN  [written |-> Concat([k \in 1..Len(tried) |-> read[tried[k]].written]),
              got |-> Concat([k \in 1..Len(tried) |-> read[tried[k]].got]),
              result |-> [pid \in { q \in Range(tried) : read[q].result /= <<>> }
                              |-> read[pid].result[1]]]

\* the answers to the requests of one read_all_sensor_data(): at most one of them
\* is not answered in full
LiveAnswers(asked) ==
    { kinds \in [asked -> LiveAnswerKinds] :
        Cardinality({ pid \in asked : kinds[pid] /= "valid" }) <= 1 }

ReadAllSensorData ==
    LET asked == Range(pids_to_try) \cap supported_pids
        outcome == [pid \in asked, kind \in LiveAnswerKinds |->
                       ReadPid(connected, supported_pids, serial_connection, pid,
                               PidAnswer(pid, kind))]
    IN  \E kinds \in LiveAnswers(asked) :
            LET r == ReadAll(connected, supported_pids,
                             [pid \in asked |-> outcome[pid, kinds[pid]]])
            IN  /\ op' = Call("read_all_sensor_data", None)
                /\ sent' = r.written
                /\ got' = r.got
                /\ ret' = r.result
                /\ UNCHANGED <<connVars, last_discovery, fnVars>>

\* mutant: the scan stops at the first mode that gives no codes
ReadDtcsAbort(link, answers) ==
    LET stored == SendCommand(link, <<"0","3">>, answers[1])
        pending == SendCommand(link, <<"0","7">>, answers[2])
        permanent == SendCommand(link, <<"0","A">>, answers[3])
        first == ParseDtcs(stored.response, "stored")
        second == IF first = <<>> THEN <<>> ELSE ParseDtcs(pending.response, "pending")
        third == IF second = <<>> THEN <<>> ELSE ParseDtcs(permanent.response, "permanent")
        dtcs == first \o second \o third
    IN  [written |-> stored.written \o pending.written \o permanent.written,
         got |-> <<stored.response, pending.response, permanent.response>>,
         result |-> dtcs,
         dtc_count |-> Len(dtcs)]

\* read_dtcs() on a link in state link, answers[k] answering the k-th request: what
\* is written, what comes back, the returned list and the new dtc_count
ReadDtcs(link, answers) ==
    LET stored == SendCommand(link, <<"0","3">>, answers[1])
        pending == SendCommand(link, <<"0","7">>, answers[2])
        permanent == SendCommand(link, <<"0","A">>, answers[3])
        dtcs == ParseDtcs(stored.response, "stored")
                    \o ParseDtcs(pending.response, "pending")
                    \o ParseDtcs(permanent.response, "permanent")
    IN  [written |-> stored.written \o pending.written \o permanent.written,
         got |-> <<stored.response, pending.response, permanent.response>>,
         result |-> dtcs,
         dtc_count |-> Len(dtcs)]

\* answers to the requests 03, 07, 0A of two vehicles: one stored code, no code
ScanAnswers ==
    { << <<"4","3","0","1","7","1","0","0","0","0">>, NO_DATA, <<>> >>,
      << NO_DATA, NO_DATA, NO_DATA >> }

ReadDtcsCall ==
    \E answers \in ScanAnswers :
        LET r == ReadDtcs(serial_connection, answers)
        IN  /\ op' = Call("read_dtcs", None)
            /\ sent' = r.written
            /\ got' = r.got
            /\ ret' = r.result
            /\ dtc_count' = r.dtc_count
            /\ UNCHANGED <<port, serial_connection, connected, protocol, supported_pids,
                           last_discovery, fnVars>>

\* answers to the request 04: the acknowledgement, bare and behind a header, NO DATA,
\* nothing within the timeout, "?", a negative response
ClearAnswers ==
    { <<"4","4">>, <<"7","E","8"," ","0","1"," ","4","4">>, NO_DATA, <<>>, <<"?">>,
      <<"7","F"," ","0","4"," ","2","2">> }

\* mutant: the modes 03 is scanned again after the clear
ClearDtcsRescan ==
    \E answer \in ClearAnswers :
        /\ op' = Call("clear_dtcs", None)
        /\ UNCHANGED <<connVars, last_discovery, fnVars>>
        /\ IF ~connected
           THEN /\ ret' = FALSE
                /\ sent' = <<>>
                /\ got' = <<>>
           ELSE LET io == SendCommand(serial_connection, <<"0","4">>, answer)
                IN  /\ sent' = io.written \o <<<<"0","3">>>>
                    /\ got' = <<io.response, NO_DATA>>
                    /\ ret' = Contains(io.response, <<"4","4">>)

\* clear_dtcs()
ClearDtcs ==
    \E answer \in ClearAnswers :
        /\ op' = Call("clear_dtcs", None)
        /\ UNCHANGED <<connVars, last_discovery, fnVars>>
        /\ IF ~connected
           THEN /\ ret' = FALSE
                /\ sent' = <<>>
                /\ got' = <<>>
           ELSE LET io == SendCommand(serial_connection, <<"0","4">>, answer)
                IN  /\ sent' = io.written
                    /\ got' = <<io.response>>
                    /\ ret' = Contains(io.response, <<"4","4">>)

PID_FREEZE_DTC == <<"0","2">>

FreezeLetterNibble == ("P" :> "0") @@ ("C" :> "1") @@ ("B" :> "2") @@ ("U" :> "3")

\* hex_dtc = f"{dtc_type}{numeric}"
HexDtc(dtc_code) == <<FreezeLetterNibble[dtc_code[1]]>> \o SliceFrom(dtc_code, 1)

\* the command get_freeze_frame_data builds for dtc_code (None: no code given)
FreezeFrameCommand(dtc_code) ==
    IF dtc_code /= None /\ dtc_code /= <<>> /\ Len(dtc_code) = 5
       /\ dtc_code[1] \in {"P","C","B","U"}
    THEN <<"0","2">> \o PID_FREEZE_DTC \o HexDtc(dtc_code)
    ELSE <<"0","2">>

\* answers to a freeze-frame request
FreezeAnswers == { <<"4","2","0","2","0","1","7","1">>, NO_DATA, <<>> }

\* get_freeze_frame_data(dtc_code): {} is the function of empty domain
GetFreezeFrameData ==
    \E dtc_code \in { None, <<"P","0","3","0","1">> }, answer \in FreezeAnswers :
        /\ op' = Call("get_freeze_frame_data", dtc_code)
        /\ UNCHANGED <<connVars, last_discovery, fnVars>>
        /\ IF ~connected
           THEN /\ ret' = <<>>
                /\ sent' = <<>>
                /\ got' = <<>>
           ELSE LET io == SendCommand(serial_connection, FreezeFrameCommand(dtc_code), answer)
                IN  /\ sent' = io.written
                    /\ got' = <<io.response>>
                    /\ ret' = IF io.response = <<>> \/ Contains(io.response, NO_DATA)
                                 \/ Contains(io.response, ERROR)
                              THEN <<>>
                              ELSE [key \in {"raw"} |-> io.response]

RECURSIVE Split(_)
\* s.split(): the runs of characters between spaces
Split(s) ==
    IF s = <<>> THEN <<>>
    ELSE IF Head(s) = " " THEN Split(Tail(s))
    ELSE LET stop == IF Contains(s, <<" ">>) THEN Find(s, <<" ">>) ELSE Len(s)
         IN  <<Slice(s, 0, stop)>> \o Split(SliceFrom(s, stop))

UpperLetters ==
    <<"A","B","C","D","E","F","G","H","I","J","K","L","M",
      "N","O","P","Q","R","S","T","U","V","W","X","Y","Z">>

LowerLetters ==
    <<"a","b","c","d","e","f","g","h","i","j","k","l","m",
      "n","o","p","q","r","s","t","u","v","w","x","y","z">>

\* what the character chr(v) leaves in the VIN: printable, upper-cased (the sharp s,
\* 0xDF, gives SS), and kept only if it is one of A-Z, 0-9
VinChars(v) ==
    CASE v \in 48..57 -> <<HexChars[v - 47]>>
      [] v \in 65..90 -> <<UpperLetters[v - 64]>>
      [] v \in 97..122 -> <<UpperLetters[v - 96]>>
      [] v = 223 -> <<"S","S">>
      [] OTHER -> <<>>

\* what the character chr(v) leaves in the ECU name: printable and one of A-Z, a-z,
\* 0-9, space, underscore, hyphen
EcuChars(v) ==
    CASE v \in 48..57 -> <<HexChars[v - 47]>>
      [] v \in 65..90 -> <<UpperLetters[v - 64]>>
      [] v \in 97..122 -> <<LowerLetters[v - 96]>>
      [] v = 32 -> <<" ">>
      [] v = 95 -> <<"_">>
      [] v = 45 -> <<"-">>
      [] OTHER -> <<>>

\* the loop over the hex pairs of data, for the field vin or ecu_name: "00" and pairs
\* that are not hex give nothing
PairsText(data, field) ==
    Concat([k \in 1..(Len(data) \div 2) |->
               LET hex_char == HexPairs(data)[k]
               IN  IF hex_char = <<"0","0">> \/ BadPair(hex_char) THEN <<>>
                   ELSE IF field = "vin" THEN VinChars(Int16(hex_char))
                   ELSE EcuChars(Int16(hex_char))])

\* the loop over the lines of a Mode 09 response: the text of the data behind prefix
\* in every line that holds "49" and the prefix
LinesText(response, prefix, field) ==
    LET lines == Split(response)
    IN  Concat([k \in 1..Len(lines) |->
                   IF Contains(lines[k], <<"4","9">>) /\ Find(lines[k], prefix) >= 0
                   THEN PairsText(SliceFrom(lines[k], Find(lines[k], prefix) + Len(prefix)),
                                  field)
                   ELSE <<>>])

RECURSIVE Strip(_)
\* s.strip() of a text whose only white space is the space
Strip(s) ==
    IF s = <<>> THEN s
    ELSE IF Head(s) = " " THEN Strip(Tail(s))
    ELSE IF s[Len(s)] = " " THEN Strip(SubSeq(s, 1, Len(s) - 1))
    ELSE s

\* "if response and 'NO DATA' not in response and 'ERROR' not in response"
Usable(response) ==
    response /= <<>> /\ ~Contains(response, NO_DATA) /\ ~Contains(response, ERROR)

\* get_vehicle_info() on a link in state link: what is written, what comes back and
\* the returned dictionary, a function on the keys that are set
GetVehicleInfo(link, proto, vin_answer, ecu_answer) ==
    LET vin_io == SendCommand(link, <<"0","9","0","2">>, vin_answer)
        ecu_io == SendCommand(link, <<"0","9","0","B">>, ecu_answer)
        vin == IF Usable(vin_io.response)
               THEN LinesText(vin_io.response, <<"4","9","0","2","0">>, "vin")
               ELSE <<>>
        ecu_name == IF Usable(ecu_io.response)
                    THEN Strip(LinesText(ecu_io.response, <<"4","9","0","B">>, "ecu_name"))
                    ELSE <<>>
        keys == (IF Len(vin) >= 17 THEN {"vin"} ELSE {})
                    \cup (IF ecu_name /= <<>> THEN {"ecu_name"} ELSE {})
                    \cup (IF ~Falsy(proto) THEN {"protocol"} ELSE {})
    IN  [written |-> vin_io.written \o ecu_io.written,
         got |-> <<vin_io.response, ecu_io.response>>,
         result |-> [key \in keys |->
                        CASE key = "vin" -> Slice(vin, 0, 17)
                          [] key = "ecu_name" -> ecu_name
                          [] key = "protocol" -> proto]]

\* answers to 0902: the VIN in one line, NO DATA
VinAnswers ==
    { <<"4","9","0","2","0">> \o Concat([k \in 1..17 |-> <<"3", HexChars[(k % 10) + 1]>>]),
      NO_DATA }

\* answers to 090B: a name, nothing within the timeout
EcuAnswers == { <<"4","9","0","B","4","5","4","3","5","5","2","D","3","1">>, <<>> }

GetVehicleInfoCall ==
    \E vin_answer \in VinAnswers, ecu_answer \in EcuAnswers :
        LET r == GetVehicleInfo(serial_connection, protocol, vin_answer, ecu_answer)
        IN  /\ op' = Call("get_vehicle_info", None)
            /\ sent' = r.written
            /\ got' = r.got
            /\ ret' = r.result
            /\ UNCHANGED <<connVars, last_discovery, fnVars>>

----------------------------------------------------------------------------
\* The connector driven by its callers

Init ==
    /\ ConnInit
    /\ fn_in = None
    /\ fn_out = None
    /\ fn_pc = "idle"

Next ==
    \/ Connect
    \/ Disconnect
    \/ ReadPidCall
    \/ ReadAllSensorData
    \/ ReadDtcsCall
    \/ ClearDtcs
    \/ GetFreezeFrameData
    \/ GetVehicleInfoCall

Spec == Init /\ [][Next]_vars

----------------------------------------------------------------------------
\* The DTC decoder applied to adapter responses

MaxSlots == 2

SlotPool ==
    { <<"0","0","0","0">>, <<"0","1","0","3">>, <<"0","1","7","1">>, <<"1","1","7","1">>,
      <<"2","A","B","C">>, <<"3","F","F","F">>, <<"4","1","7","1">> }

SlotLists == UNION { [1..n -> SlotPool] : n \in 0..MaxSlots }

\* what follows the last complete slot: nothing, or an incomplete slot
Tails == { <<>>, <<"0","1">>, <<"0","1","7">> }

\* how the adapter renders the line: bare, bytes separated by spaces, behind a
\* header, followed by a NO DATA line, followed by the <DATA ERROR mark
Decors == {"bare", "spaced", "header", "nodata", "dataerror"}

\* the mode whose prefix the response carries, or "none" for no prefix at all
Wires == DtcKinds \cup {"none"}

RECURSIVE Spaced(_)
Spaced(s) ==
    IF Len(s) <= 2 THEN s ELSE <<s[1], s[2], " ">> \o Spaced(SliceFrom(s, 2))

DtcLine(wire, slots, tail) ==
    (IF wire \in DtcKinds THEN DtcPrefix(wire) ELSE <<>>) \o Concat(slots) \o tail

DtcResponse(wire, slots, tail, decor) ==
    LET line == DtcLine(wire, slots, tail)
    IN  CASE decor = "bare" -> line
          [] decor = "spaced" -> Spaced(line)
          [] decor = "header" -> <<"7","E","8">> \o line
          [] decor = "nodata" -> line \o <<" ">> \o NO_DATA
          [] decor = "dataerror" -> line \o <<" ","<","D","A","T","A"," ">> \o ERROR

DtcInput(wire, slots, tail, decor, dtc_type) ==
    [response |-> DtcResponse(wire, slots, tail, decor), dtc_type |-> dtc_type,
     wire |-> wire, slots |-> slots, tail |-> tail, decor |-> decor]

\* raw Mode 03 response 43 01 03 01 71 00 00
ScenarioSlots == << <<"0","1","0","3">>, <<"0","1","7","1">>, <<"0","0","0","0">> >>
ScenarioInput == DtcInput("stored", ScenarioSlots, <<>>, "spaced", "stored")

InitDtc ==
    /\ ConnInit /\ port = DevicePath
    /\ fn_pc = "input"
    /\ fn_out = <<>>
    /\ \/ \E wire \in Wires, slots \in SlotLists, tail \in Tails, decor \in Decors,
             dtc_type \in DtcKinds \cup {"history"} :
             fn_in = DtcInput(wire, slots, tail, decor, dtc_type)
       \/ fn_in = ScenarioInput

ParseDtcsCall ==
    /\ fn_pc = "input"
    /\ fn_out' = ParseDtcs(fn_in.response, fn_in.dtc_type)
    /\ fn_pc' = "done"
    /\ UNCHANGED <<fn_in, connVars, callVars>>

NextDtc == ParseDtcsCall

SpecDtc == InitDtc /\ [][NextDtc]_vars

----------------------------------------------------------------------------
\* A trouble code put in hex form as get_freeze_frame_data does, then decoded

\* characters of the numeric part of the codes tried
NumericChars == {"0", "1", "3", "F"}

InitRoundTrip ==
    /\ ConnInit /\ port = DevicePath
    /\ fn_pc = "input"
    /\ fn_out = [hex_dtc |-> <<>>, decoded |-> <<>>]
    /\ \E letter \in {"P","C","B","U"}, numeric \in [1..4 -> NumericChars],
          dtc_type \in DtcKinds :
          fn_in = [dtc_code |-> <<letter>> \o numeric, dtc_type |-> dtc_type]

EncodeDtc ==
    /\ fn_pc = "input"
    /\ fn_out' = [fn_out EXCEPT !.hex_dtc = SliceFrom(FreezeFrameCommand(fn_in.dtc_code), 4)]
    /\ fn_pc' = "encoded"
    /\ UNCHANGED <<fn_in, connVars, callVars>>

DecodeDtc ==
    /\ fn_pc = "encoded"
    /\ fn_out' = [fn_out EXCEPT !.decoded =
                      ParseDtcs(DtcPrefix(fn_in.dtc_type) \o fn_out.hex_dtc, fn_in.dtc_type)]
    /\ fn_pc' = "done"
    /\ UNCHANGED <<fn_in, connVars, callVars>>

NextRoundTrip == EncodeDtc \/ DecodeDtc

SpecRoundTrip == InitRoundTrip /\ [][NextRoundTrip]_vars

----------------------------------------------------------------------------
\* The sensor decoder applied to payloads

DecodePids ==
    { PID_ENGINE_LOAD, PID_COOLANT_TEMP, PID_SHORT_FUEL_TRIM_1, PID_LONG_FUEL_TRIM_1,
      PID_SHORT_FUEL_TRIM_2, PID_LONG_FUEL_TRIM_2, PID_FUEL_PRESSURE,
      PID_INTAKE_PRESSURE, PID_RPM, PID_SPEED, PID_TIMING_ADVANCE, PID_INTAKE_TEMP,
      PID_MAF, PID_THROTTLE, PID_RUN_TIME, <<"1","C">> }

Bytes == 0..255

\* second bytes tried for the two-byte PIDs other than RPM
ByteSamples == {0, 1, 26, 90, 127, 128, 248, 255}

\* payloads of any length up to MaxDataLen, well-formed or not
MaxDataLen == 5
RaggedChars == {"1", "A", "F", "Z"}
RaggedData == UNION { [1..n -> RaggedChars] : n \in 0..MaxDataLen }

DecodeInput(pid, data, bytes) == [pid |-> pid, data |-> data, bytes |-> bytes]

InitDecode ==
    /\ ConnInit /\ port = DevicePath
    /\ fn_pc = "input"
    /\ fn_out = DecodeErrorResult(<<>>)
    /\ \/ \E A \in Bytes, B \in Bytes :
             fn_in = DecodeInput(PID_RPM, Hex2(A) \o Hex2(B), <<A, B>>)
       \/ \E pid \in {PID_MAF, PID_RUN_TIME}, A \in Bytes, B \in ByteSamples :
             fn_in = DecodeInput(pid, Hex2(A) \o Hex2(B), <<A, B>>)
       \/ \E pid \in DecodePids, A \in Bytes :
             fn_in = DecodeInput(pid, Hex2(A), <<A>>)
       \/ \E pid \in DecodePids, data \in RaggedData :
             fn_in = DecodeInput(pid, data, <<>>)

DecodePidCall ==
    /\ fn_pc = "input"
    /\ fn_out' = DecodePid(fn_in.pid, fn_in.data)
    /\ fn_pc' = "done"
    /\ UNCHANGED <<fn_in, connVars, callVars>>

NextDecode == DecodePidCall

SpecDecode == InitDecode /\ [][NextDecode]_vars

----------------------------------------------------------------------------
\* Capability discovery applied to the answers of a vehicle, from an empty table

\* the 4-byte bitmasks tried
MaskSamples ==
    { <<"B","E","3","E","B","8","1","1">>, <<"8","0","0","0","0","0","0","0">>,
      <<"0","0","0","0","0","0","0","1">> }

\* how a range probe may be answered: one bitmask, the same with spaces between the
\* bytes, cut short after two bytes, by two ECUs (one line each, which _send_command
\* joins with a space), NO DATA, not at all, SEARCHING..., with a payload that is not
\* hex
RangeAnswerForms ==
    {"valid", "spaced", "truncated", "twoecus", "nodata", "empty", "searching", "garbled"}

RangeAnswer(range_start, mask, form) ==
    LET line == <<"4","1">> \o range_start \o mask
    IN  CASE form = "valid" -> line
          [] form = "spaced" -> Spaced(line)
          [] form = "truncated" -> SubSeq(line, 1, 8)
          [] form = "twoecus" ->
                 line \o <<" ">> \o <<"4","1">> \o range_start
                      \o <<"8","0","0","0","0","0","0","0">>
          [] form = "nodata" -> NO_DATA
          [] form = "empty" -> <<>>
          [] form = "searching" -> <<"S","E","A","R","C","H","I","N","G",".",".",".">>
          [] form = "garbled" -> <<"4","1">> \o range_start \o <<"G">> \o Tail(mask)

\* the bitmask bytes that answer carries for the range: the whole mask, its first two
\* bytes, or none
RangeMask(mask, form) ==
    CASE form \in {"valid", "spaced", "twoecus"} -> mask
      [] form = "truncated" -> SubSeq(mask, 1, 4)
      [] OTHER -> <<>>

\* a vehicle that answers range a and the range after it, and NO DATA to the others
DiscoverInput(a, mask1, form1, mask2, form2) ==
    [responses |-> [k \in 1..Len(pid_ranges) |->
                       IF k = a THEN RangeAnswer(pid_ranges[k], mask1, form1)
                       ELSE IF k = a + 1 THEN RangeAnswer(pid_ranges[k], mask2, form2)
                       ELSE NO_DATA],
     masks |-> [k \in 1..Len(pid_ranges) |->
                   IF k = a THEN RangeMask(mask1, form1)
                   ELSE IF k = a + 1 THEN RangeMask(mask2, form2)
                   ELSE <<>>],
     forms |-> [k \in 1..Len(pid_ranges) |->
                   IF k = a THEN form1 ELSE IF k = a + 1 THEN form2 ELSE "nodata"]]

InitDiscover ==
    /\ ConnInit /\ port = DevicePath
    /\ fn_pc = "input"
    /\ fn_out = {}
    /\ \E a \in 1..Len(pid_ranges), mask1 \in MaskSamples, mask2 \in MaskSamples,
          form1 \in RangeAnswerForms, form2 \in RangeAnswerForms :
          fn_in = DiscoverInput(a, mask1, form1, mask2, form2)

GetSupportedPidsCall ==
    /\ fn_pc = "input"
    /\ fn_out' = Discover({}, LoopPids(fn_in.responses))
    /\ fn_pc' = "done"
    /\ UNCHANGED <<fn_in, connVars, callVars>>

NextDiscover == GetSupportedPidsCall

SpecDiscover == InitDiscover /\ [][NextDiscover]_vars

----------------------------------------------------------------------------
\* The transport applied to a command, on a link in any state

\* serial_connection is None, a closed link, an open link
LinkStates == {"None", "closed", "open"}

SendCommands ==
    { ATZ, ATE0, ATL0, ATS0, ATH0, ATAT1, ATSP0, ATDP, Probe0100, <<"0","1","0","C">>,
      <<"0","3">>, <<"0","4">>, <<"0","9","0","2">> }

SendAnswers ==
    { OK, <<>>, NO_DATA, <<"?">>, CAN_ERROR, <<"4","1","0","C","1","A","F","8">>,
      <<"4","3","0","1","7","1">>, WriteFails }

InitSend ==
    /\ ConnInit /\ port = DevicePath
    /\ fn_pc = "input"
    /\ fn_out = [written |-> <<>>, response |-> None, raises |-> FALSE]
    /\ \E link \in LinkStates, command \in SendCommands, answer \in SendAnswers :
          fn_in = [link |-> link, command |-> command, answer |-> answer]

SendCommandCall ==
    /\ fn_pc = "input"
    /\ fn_out' = SendCommand(fn_in.link, fn_in.command, fn_in.answer)
    /\ fn_pc' = "done"
    /\ UNCHANGED <<fn_in, connVars, callVars>>

NextSend == SendCommandCall

SpecSend == InitSend /\ [][NextSend]_vars

----------------------------------------------------------------------------
\* Claims about the DTC decoder (checked under SpecDtc)

ZeroSlot == <<"0","0","0","0">>

NonZeroSlots(slots) == SelectSeq(slots, LAMBDA s : s /= ZeroSlot)

Last3(s) == SubSeq(s, Len(s) - 2, Len(s))

HasSentinelText(response) == Contains(response, NO_DATA) \/ Contains(response, ERROR)

\* the response carries the prefix of the mode that was asked for
CarriesExpectedPrefix == fn_in.dtc_type \in DtcKinds /\ fn_in.wire = fn_in.dtc_type

C3_CodeFormat ==
    fn_pc = "done" =>
        \A k \in 1..Len(fn_out) :
            LET c == fn_out[k].code
            IN  /\ Len(c) = 5
                /\ c[1] \in {"P","C","B","U"}
                /\ c[2] \in {"0","1","2","3"}
                /\ \A j \in 3..5 : IsHex(c[j])
                /\ fn_out[k].type \in DtcKinds

OnePerNonZeroSlot ==
    LET nz == NonZeroSlots(fn_in.slots)
    IN  /\ Len(fn_out) = Len(nz)
        /\ \A k \in 1..Len(fn_out) :
               /\ Last3(fn_out[k].code) = Last3(nz[k])
               /\ fn_out[k].type = fn_in.dtc_type
               /\ fn_out[k].code \notin DOMAIN dtc_descriptions
                      => fn_out[k].description = "Unknown code description"

\* C6 as stated: for any response containing the expected mode prefix, the decoder
\* returns one trouble code per complete non-0000 slot, in slot order, and none for a
\* 0000 slot; a code without a description is returned with the placeholder.
C6_OnePerSlotAnyResponse ==
    (fn_pc = "done" /\ CarriesExpectedPrefix) => OnePerNonZeroSlot

\* C6 amended: for any response that contains the expected mode prefix and neither
\* the text NO DATA nor the text ERROR, the decoder returns one trouble code per
\* complete non-0000 slot, in slot order, and none for a 0000 slot; a code without a
\* description is returned with the placeholder.
C6_OnePerSlotNoSentinel ==
    (fn_pc = "done" /\ CarriesExpectedPrefix /\ ~HasSentinelText(fn_in.response))
        => OnePerNonZeroSlot

C6_Witness ==
    /\ fn_pc = "done"
    /\ CarriesExpectedPrefix
    /\ ~HasSentinelText(fn_in.response)
    /\ fn_in.slots = <<ZeroSlot, <<"0","1","7","1">> >>
    /\ fn_in.tail /= <<>>
    /\ Len(fn_out) = 1
    /\ fn_out[1].description = "Unknown code description"

----------------------------------------------------------------------------
\* Claims about the DTC round trip (checked under SpecRoundTrip)

\* C4: a code of a letter P/C/B/U and a 4-character numeric part, put in hex form as
\* get_freeze_frame_data does and decoded by the DTC decoder, comes back as exactly
\* that code.
C4_RoundTrip ==
    fn_pc = "done" =>
        /\ Len(fn_out.decoded) = 1
        /\ fn_out.decoded[1].code = fn_in.dtc_code

----------------------------------------------------------------------------
\* Claims about the sensor decoder (checked under SpecDecode)

\* C10: for every 2-byte payload (A,B), decoding PID 0C gives a value v with
\* 4*v = A*256 + B and unit rpm; (0x1A,0xF8) gives 1726.
C10_Rpm ==
    (fn_pc = "done" /\ fn_in.pid = <<"0","C">> /\ Len(fn_in.bytes) = 2) =>
        LET A == fn_in.bytes[1]
            B == fn_in.bytes[2]
        IN  /\ fn_out.unit = "rpm"
            /\ 4 * fn_out.value.num = (A * 256 + B) * fn_out.value.den
            /\ (A = 26 /\ B = 248) => fn_out.value.num = 1726 * fn_out.value.den

C10_Witness ==
    /\ fn_pc = "done"
    /\ fn_in.pid = <<"0","C">>
    /\ fn_in.data = <<"1","A","F","8">>
    /\ fn_in.bytes = <<26, 248>>
    /\ fn_out.unit = "rpm"
    /\ fn_out.value = [num |-> 6904, den |-> 4]

\* C11: for every 1-byte payload A in 0..255, decoding PID 05 gives exactly A - 40
\* with the unit degrees Celsius; 0x5A gives 50.
C11_Coolant ==
    (fn_pc = "done" /\ fn_in.pid = <<"0","5">> /\ Len(fn_in.bytes) = 1) =>
        LET A == fn_in.bytes[1]
        IN  /\ fn_out.unit = "C"
            /\ fn_out.name = "Coolant Temperature"
            /\ fn_out.value.num = (A - 40) * fn_out.value.den
            /\ A = 90 => fn_out.value.num = 50 * fn_out.value.den

C11_Witness ==
    /\ fn_pc = "done"
    /\ fn_in.pid = <<"0","5">>
    /\ fn_in.data = <<"5","A">>
    /\ fn_in.bytes = <<90>>
    /\ fn_out.unit = "C"
    /\ fn_out.value = [num |-> 50, den |-> 1]

----------------------------------------------------------------------------
\* Claims about the connector (checked under Spec)

\* bit i, counted from the most significant bit, of the 32-bit mask that eight hex
\* characters write: bit i % 4 of hex digit i \div 4
MaskBit(payload, i) == (HexVal(payload[(i \div 4) + 1]) \div (2 ^ (3 - (i % 4)))) % 2

\* the bit of pid is set in the bitmask one of the range responses carries
Announced(responses, pid) ==
    \E k \in 1..Len(pid_ranges) :
        LET r == responses[k]
            i == Int16(pid) - Int16(pid_ranges[k]) - 1
        IN  /\ Len(r) = 12
            /\ SubSeq(r, 1, 4) = <<"4","1">> \o pid_ranges[k]
            /\ i \in 0..31
            /\ MaskBit(SubSeq(r, 5, 12), i) = 1

\* C1: after the most recent successful connect(), is_pid_supported(pid) is True only
\* for PIDs whose bit was set in the range bitmasks of that connect's own discovery.
C1_OnlyLatestDiscovery ==
    last_discovery /= <<>> =>
        \A pid \in supported_pids : Announced(last_discovery, pid)

\* C7: disconnect() on a connector whose link is not open returns True, sends no
\* command and changes no connector state, however often it is repeated.
C7_DisconnectIdempotent ==
    [][(op'.name = "disconnect" /\ ~LinkOpen) =>
           (ret' = TRUE /\ sent' = <<>> /\ UNCHANGED connVars)]_vars

C7_Witness ==
    /\ op.name = "disconnect"
    /\ serial_connection = "closed"
    /\ sent = <<>>
    /\ ret = TRUE

\* C8: a sensor read for a PID outside the capability set returns an empty result
\* and writes no command, connected or not; a live-data read writes no request for
\* such a PID and returns no reading for it.
C8_UnsupportedNotRequested ==
    /\ (op.name = "read_pid" /\ ~IsPidSupported(op.arg)) => (ret = <<>> /\ sent = <<>>)
    /\ op.name = "read_all_sensor_data" =>
           \A k \in 1..Len(pids_to_try) :
               ~IsPidSupported(pids_to_try[k]) =>
                   /\ pids_to_try[k] \notin DOMAIN ret
                   /\ \A j \in 1..Len(sent) : sent[j] /= <<"0","1">> \o pids_to_try[k]

C8_Witness ==
    /\ op.name = "read_pid"
    /\ op.arg = <<"0","C">>
    /\ connected
    /\ LinkOpen
    /\ supported_pids /= {}
    /\ ~IsPidSupported(<<"0","C">>)
    /\ ret = <<>>
    /\ sent = <<>>

\* the request written k-th in a live-data read was answered in full
AnsweredValid(k) == got[k] = PidAnswer(SliceFrom(sent[k], 2), "valid")

\* the request written k-th in a live-data read timed out: nothing, or part of the
\* answer, had arrived
TimedOut(k) ==
    got[k] \in { PidAnswer(SliceFrom(sent[k], 2), "empty"),
                 PidAnswer(SliceFrom(sent[k], 2), "partial") }

\* C9: in a live-data read where the request for one supported PID times out (empty
\* or partial response) and the others are answered validly, the result holds a
\* decoded reading for every other supported PID and none for the timed-out one.
C9_TimeoutIsolated ==
    (/\ op.name = "read_all_sensor_data"
     /\ Cardinality({ k \in 1..Len(sent) : TimedOut(k) }) = 1
     /\ \A k \in 1..Len(sent) : TimedOut(k) \/ AnsweredValid(k))
    => \A k \in 1..Len(sent) :
           LET pid == SliceFrom(sent[k], 2)
           IN  /\ AnsweredValid(k) => (pid \in DOMAIN ret /\ ret[pid].unit /= "error")
               /\ TimedOut(k) => pid \notin DOMAIN ret

\* the answer to a sensor read carried a payload the decoder cannot use: not hex, or
\* fewer bytes than the formula of the PID needs
BadPayloadAnswer ==
    /\ got /= <<>>
    /\ got[1] \in { PidAnswer(op.arg, "partial"), PidAnswer(op.arg, "garbled") }

\* C12: when the payload for a PID is malformed hex or carries fewer bytes than the
\* formula of that PID needs, read_pid returns no reading for that PID.
C12_BadPayloadNoReading ==
    (op.name = "read_pid" /\ BadPayloadAnswer) => ret = <<>>

\* the texts of an adapter-level non-answer: NO DATA, BUS INIT: ERROR, CAN ERROR and
\* the ERROR of a failed exchange, "?", SEARCHING...
SentinelAnswer(response) ==
    \/ Contains(response, ERROR)
    \/ \E text \in ERROR_CODES \ { <<"7","F">> } : Contains(response, text)

\* the commands of the fixed configuration sequence: echo off, linefeeds off, spaces
\* off, headers off, adaptive timing on
ConfigurationSequence == { ATE0, ATL0, ATS0, ATH0, ATAT1 }

\* a command of the configuration sequence written by the last call got an error
\* response
ConfigErrored ==
    \E k \in 1..Min(Len(sent), Len(got)) :
        sent[k] \in ConfigurationSequence /\ SentinelAnswer(got[k])

\* C13: a connect() in which a command of the configuration sequence gets an error
\* response returns False and does not make the connector connected.
C13_ConfigErrorFails ==
    [][(op'.name = "connect" /\ ConfigErrored') =>
           (ret' = FALSE /\ (connected' => connected))]_vars

\* the positions, in what the last connect() wrote, of the 0100 probes that precede
\* the protocol query
ProbeIndexes ==
    { k \in 1..Len(sent) : sent[k] = Probe0100 /\ \A j \in 1..k : sent[j] /= ATDP }

\* a command that sets one protocol explicitly: ATSP with a number other than 0
ForcesProtocol(command) ==
    Len(command) = 5 /\ SubSeq(command, 1, 4) = <<"A","T","S","P">> /\ command /= ATSP0

\* C14: a connect() that returns False after the 0100 probe was answered by a sentinel
\* has forced a protocol and sent the probe exactly once more, and that second probe
\* was answered by a sentinel too.
C14_ProbeRetriedOnce ==
    (/\ op.name = "connect"
     /\ ret = FALSE
     /\ \E k \in ProbeIndexes : SentinelAnswer(got[k]))
    => /\ Cardinality(ProbeIndexes) = 2
       /\ \A k \in ProbeIndexes : SentinelAnswer(got[k])
       /\ \E j \in 1..Len(sent) :
              /\ ForcesProtocol(sent[j])
              /\ \E k \in ProbeIndexes : k < j
              /\ \E k \in ProbeIndexes : j < k

\* a valid answer to the 0100 probe: no sentinel, and a payload behind mode and PID
ValidProbeAnswer(response) ==
    ~SentinelAnswer(response) /\ ~Falsy(ParsePidResponse(response, <<"0","0">>))

\* C15: connect() returns True only if a 0100 probe got a valid response: an empty
\* response, "?" or another non-answer never leads to True.
C15_ConnectedOnlyOnValidProbe ==
    (op.name = "connect" /\ ret = TRUE) =>
        \E k \in ProbeIndexes : ValidProbeAnswer(got[k])

\* the positions, in what the last connect() wrote, of the range probes of discovery
RangeProbeIndexes ==
    { k \in 1..Len(sent) :
          /\ sent[k] \in Range(RangeCommands)
          /\ \E j \in 1..k : sent[j] = ATDP }

\* C17: discovery probes the ranges in ascending order and sends no range probe after
\* the first one that was answered by a sentinel.
C17_StopsAtSentinel ==
    op.name = "connect" =>
        \A k \in RangeProbeIndexes, j \in RangeProbeIndexes :
            k < j => /\ Int16(SliceFrom(sent[k], 2)) < Int16(SliceFrom(sent[j], 2))
                     /\ ~SentinelAnswer(got[k])

\* C18: when connect() returns False after it opened the link and wrote to it, the
\* link is not left open.
C18_LinkClosedOnFailure ==
    (op.name = "connect" /\ ret = FALSE /\ sent /= <<>>) => ~LinkOpen

\* C19: after a disconnect() that closed an open link, the protocol is unset and the
\* supported-PID set is empty, so is_pid_supported is False for every PID.
C19_SessionDiscarded ==
    (op.name = "disconnect" /\ ret = TRUE /\ sent /= <<>> /\ ~LinkOpen) =>
        /\ protocol = None
        /\ supported_pids = {}
        /\ \A pid \in AskedPids : ~IsPidSupported(pid)

----------------------------------------------------------------------------
\* Claims about capability discovery (checked under SpecDiscover)

\* bit i, counted from the most significant bit, is set in the bitmask bytes that the
\* answer to the k-th range probe carries
BitAnnounced(k, i) ==
    LET mask == fn_in.masks[k]
    IN  i < 4 * Len(mask) /\ MaskBit(mask, i) = 1

\* C16: for every range anchor a and every i in 0..31, PID a+1+i is recorded as
\* supported exactly when bit i (most significant first) of the payload answered for
\* range a is set; a range without a valid payload records nothing.
C16_BitmaskExact ==
    fn_pc = "done" =>
        \A k \in 1..Len(pid_ranges), i \in 0..31 :
            (FormatX2(Int16(pid_ranges[k]) + 1 + i) \in fn_out) <=> BitAnnounced(k, i)

----------------------------------------------------------------------------
\* Claims about the transport (checked under SpecSend)

\* C20: sending a command while the link is not open fails with an error raised to
\* the caller and writes nothing to the link; no response string is returned.
C20_NotOpenRaises ==
    (fn_pc = "done" /\ fn_in.link /= "open") =>
        /\ fn_out.raises
        /\ fn_out.written = <<>>
        /\ fn_out.response = None

----------------------------------------------------------------------------
\* Sentinels, clearing, the connected flag

\* C21: a response holding one of the sentinels NO DATA, CAN ERROR, BUS INIT: ERROR, "?"
\* or SEARCHING... is no data to every consumer: read_pid gets no payload from it, the
\* trouble-code scan gets no codes from it, and a connect() whose 0100 probe was
\* answered by it returns False.
C21_SentinelIsNoData ==
    /\ (op.name = "read_pid" /\ got /= <<>> /\ SentinelAnswer(got[1])) => ret = <<>>
    /\ (op.name = "read_dtcs" /\ \A k \in 1..Len(got) : SentinelAnswer(got[k]))
           => ret = <<>>
    /\ (op.name = "connect" /\ \E k \in ProbeIndexes : SentinelAnswer(got[k]))
           => ret = FALSE

----------------------------------------------------------------------------
\* _send_command step by step, two callers sharing one link

\* a polling worker and an ad hoc request
Callers == {1, 2}

\* the command each of them sends
CommandOf(c) == IF c = 1 THEN <<"0","1">> \o PID_RPM ELSE <<"0","1">> \o PID_COOLANT_TEMP

\* self.timeout, in sleeps of the read loop
Timeout == 2

\* the data line the vehicle answers command with
ReplyData(command) == <<"4","1">> \o SliceFrom(command, 2) \o ValidPayload(SliceFrom(command, 2))

Prompt == <<">">>

\* the lines the adapter may send for command: echo, data and prompt; data, an empty
\* line and the prompt; data but no prompt; nothing at all
Replies(command) ==
    { <<command, ReplyData(command), Prompt>>,
      <<ReplyData(command), <<>>, Prompt>>,
      <<ReplyData(command)>>,
      <<>> }

\* the link is open and idle, no caller is inside _send_command
InitConc ==
    /\ ConnInit /\ port = DevicePath
    /\ fn_in = [buffer |-> <<>>, pending |-> <<>>]
    /\ fn_pc = [c \in Callers |-> "idle"]
    /\ fn_out = [c \in Callers |-> [response |-> <<>>, elapsed |-> 0, timed_out |-> FALSE]]

\* caller c enters _send_command: the link is open
BeginSend(c) ==
    /\ fn_pc[c] = "idle"
    /\ fn_pc' = [fn_pc EXCEPT ![c] = "reset"]
    /\ UNCHANGED <<fn_in, fn_out, connVars, callVars>>

\* serial_connection.reset_input_buffer()
ResetInputBuffer(c) ==
    /\ fn_pc[c] = "reset"
    /\ fn_in' = [fn_in EXCEPT !.buffer = <<>>]
    /\ fn_pc' = [fn_pc EXCEPT ![c] = "write"]
    /\ UNCHANGED <<fn_out, connVars, callVars>>

\* serial_connection.write(full_command.encode()), then response = "" and start_time:
\* the adapter takes the command and will send one of its replies; or write() raises
\* and the except branch returns "ERROR"
Write(c) ==
    /\ fn_pc[c] = "write"
    /\ \/ \E reply \in Replies(CommandOf(c)) :
              /\ fn_in' = [fn_in EXCEPT !.pending = @ \o reply]
              /\ fn_pc' = [fn_pc EXCEPT ![c] = "loop"]
              /\ UNCHANGED fn_out
       \/ /\ fn_pc' = [fn_pc EXCEPT ![c] = "done"]
          /\ fn_out' = [fn_out EXCEPT ![c].response = ERROR]
          /\ UNCHANGED fn_in
    /\ UNCHANGED <<connVars, callVars>>

\* mutant: the loop has no timeout check
ReadLoopNoTimeout(c) ==
    /\ fn_pc[c] = "loop"
    /\ UNCHANGED <<connVars, callVars>>
    /\ IF fn_in.buffer /= <<>>
       THEN LET line == Strip(Head(fn_in.buffer))
            IN  /\ fn_in' = [fn_in EXCEPT !.buffer = Tail(@)]
                /\ IF line = <<>> \/ line = CommandOf(c)
                   THEN UNCHANGED <<fn_pc, fn_out>>
                   ELSE IF line = Prompt
                   THEN /\ fn_pc' = [fn_pc EXCEPT ![c] = "done"]
                        /\ fn_out' = [fn_out EXCEPT ![c].response = Strip(@)]
                   ELSE /\ fn_out' = [fn_out EXCEPT ![c].response = @ \o line \o <<" ">>]
                        /\ UNCHANGED fn_pc
       ELSE /\ fn_out' = [fn_out EXCEPT ![c].elapsed = Min(@ + 1, Timeout + 1)]
            /\ UNCHANGED <<fn_pc, fn_in>>

\* one pass of the while loop of caller c: the timeout check, then a line is read if
\* in_waiting says there is one, else the caller sleeps; after the loop the response
\* is stripped and returned
ReadLoop(c) ==
    /\ fn_pc[c] = "loop"
    /\ UNCHANGED <<connVars, callVars>>
    /\ IF fn_out[c].elapsed > Timeout
       THEN /\ fn_pc' = [fn_pc EXCEPT ![c] = "done"]
            /\ fn_out' = [fn_out EXCEPT ![c].response = Strip(@), ![c].timed_out = TRUE]
            /\ UNCHANGED fn_in
       ELSE IF fn_in.buffer /= <<>>
       THEN LET line == Strip(Head(fn_in.buffer))
            IN  /\ fn_in' = [fn_in EXCEPT !.buffer = Tail(@)]
                /\ IF line = <<>> \/ line = CommandOf(c)
                   THEN UNCHANGED <<fn_pc, fn_out>>
                   ELSE IF line = Prompt
                   THEN /\ fn_pc' = [fn_pc EXCEPT ![c] = "done"]
                        /\ fn_out' = [fn_out EXCEPT ![c].response = Strip(@)]
                   ELSE /\ fn_out' = [fn_out EXCEPT ![c].response = @ \o line \o <<" ">>]
                        /\ UNCHANGED fn_pc
       ELSE /\ fn_out' = [fn_out EXCEPT ![c].elapsed = @ + 1]
            /\ UNCHANGED <<fn_pc, fn_in>>

\* the next step of caller c inside _send_command
SendStep(c) == ResetInputBuffer(c) \/ Write(c) \/ ReadLoop(c)

\* the adapter puts the next line of what it has to send into the input buffer
AdapterSends ==
    /\ fn_in.pending /= <<>>
    /\ fn_in' = [buffer |-> fn_in.buffer \o <<Head(fn_in.pending)>>,
                 pending |-> Tail(fn_in.pending)]
    /\ UNCHANGED <<fn_pc, fn_out, connVars, callVars>>

NextConc ==
    \/ \E c \in Callers : BeginSend(c)
    \/ \E c \in Callers : ResetInputBuffer(c)
    \/ \E c \in Callers : Write(c)
    \/ \E c \in Callers : ReadLoop(c)
    \/ AdapterSends

SpecConc == InitConc /\ [][NextConc]_vars

\* every caller that is inside _send_command keeps running; the adapter owes nothing
SpecConcFair == SpecConc /\ \A c \in Callers : WF_vars(SendStep(c))

\* the data lines the vehicle sends for the commands of the callers
DataLines == { ReplyData(CommandOf(c)) : c \in Callers }

\* the callers that have written their command and not yet left the read loop
InFlight == { c \in Callers : fn_pc[c] = "loop" }

\* C22: at most one command is in flight on the link at a time: no caller writes its
\* command while another caller is between its write and the end of its read, and
\* the response a caller gets holds only the answer to its own command.
C22_OneCommandInFlight ==
    /\ Cardinality(InFlight) <= 1
    /\ \A c \in Callers :
           (fn_pc[c] = "done" /\ fn_out[c].response /= ERROR) =>
               \A k \in 1..Len(Split(fn_out[c].response)) :
                   Split(fn_out[c].response)[k] = ReplyData(CommandOf(c))

\* the lines the adapter sends that the read loop collects: all but empty lines and
\* the prompt
CollectedLines ==
    UNION { Range(reply) : reply \in UNION { Replies(CommandOf(c)) : c \in Callers } }
        \ { <<>>, Prompt }

\* C28: a call of _send_command always ends: every caller that entered it leaves it,
\* whether the prompt comes or not; a call ended by the timeout has waited for the
\* timeout to pass and returns the lines it collected until then, and not an error.
C28_SendTerminates ==
    /\ \A c \in Callers : (fn_pc[c] = "reset") ~> (fn_pc[c] = "done")
    /\ [](\A c \in Callers :
             (fn_pc[c] = "done" /\ fn_out[c].timed_out) =>
                 /\ fn_out[c].elapsed > Timeout
                 /\ \A k \in 1..Len(Split(fn_out[c].response)) :
                        Split(fn_out[c].response)[k] \in CollectedLines)

\* a call ended by the timeout, having collected a data line and seen no prompt
C28_Witness ==
    \E c \in Callers :
        /\ fn_pc[c] = "done"
        /\ fn_out[c].timed_out
        /\ fn_out[c].response \in DataLines

\* the response to Mode 04 is a non-error acknowledgement: no sentinel, no negative
\* response, and one of its bytes is the 44 that acknowledges Mode 04
ClearAcknowledged(response) ==
    /\ ~SentinelAnswer(response)
    /\ ~Contains(response, <<"7","F">>)
    /\ \E k \in 1..Len(Split(response)) : Split(response)[k] = <<"4","4">>

\* C23: clear_dtcs() on a connected connector sends the one command 04 and nothing
\* else, no scan of the modes 03, 07, 0A after it, and returns True exactly when the
\* response is a non-error acknowledgement; on a connector that is not connected it
\* returns False and sends nothing.
C23_ClearSendsOneCommand ==
    op.name = "clear_dtcs" =>
        IF connected /\ LinkOpen
        THEN /\ sent = << <<"0","4">> >>
             /\ Len(got) = 1
             /\ ret = ClearAcknowledged(got[1])
        ELSE IF connected
        THEN sent = <<>> /\ ret = FALSE
        ELSE sent = <<>> /\ got = <<>> /\ ret = FALSE

\* a connected connector whose clear was acknowledged
C23_Witness ==
    /\ op.name = "clear_dtcs"
    /\ connected
    /\ sent = << <<"0","4">> >>
    /\ ret = TRUE

\* C24: after connect() returns, the connected flag equals the returned value: True
\* after a connect that returned True, False after one that returned False, also when
\* the failed connect was issued on a connector that was already connected.
C24_FlagIsReturnValue ==
    op.name = "connect" => connected = ret

----------------------------------------------------------------------------
\* read_dtcs applied to the answers of the three modes

ScanModes == <<"stored", "pending", "permanent">>

SEARCHING == <<"S","E","A","R","C","H","I","N","G",".",".",".">>

\* answers to the request of one mode: one code, two codes with spaces, NO DATA,
\* nothing within the timeout, "?", CAN ERROR, SEARCHING..., codes without the
\* prefix, codes behind the prefix of another mode
ModeAnswers(dtc_type) ==
    { DtcPrefix(dtc_type) \o <<"0","1","7","1">>,
      Spaced(DtcPrefix(dtc_type) \o <<"0","3","0","1","2","A","B","C">>),
      NO_DATA, <<>>, <<"?">>, CAN_ERROR, SEARCHING,
      <<"0","1","7","1">>,
      DtcPrefix(IF dtc_type = "stored" THEN "pending" ELSE "stored") \o <<"0","1","7","1">> }

InitScan ==
    /\ ConnInit /\ port = DevicePath
    /\ fn_pc = "input"
    /\ fn_out = [written |-> <<>>, got |-> <<>>, result |-> <<>>, dtc_count |-> 0]
    /\ \E stored \in ModeAnswers("stored"), pending \in ModeAnswers("pending"),
          permanent \in ModeAnswers("permanent") :
          fn_in = [link |-> "open", answers |-> <<stored, pending, permanent>>]

ReadDtcsScan ==
    /\ fn_pc = "input"
    /\ fn_out' = ReadDtcs(fn_in.link, fn_in.answers)
    /\ fn_pc' = "done"
    /\ UNCHANGED <<fn_in, connVars, callVars>>

NextScan == ReadDtcsScan

SpecScan == InitScan /\ [][NextScan]_vars

\* the answer to the request of a mode is a failure: nothing within the timeout, a
\* sentinel, or a response that does not carry the prefix of the mode
ModeFailed(response, dtc_type) ==
    \/ response = <<>>
    \/ SentinelAnswer(response)
    \/ ~Contains(RemoveSpaces(response), DtcPrefix(dtc_type))

\* the codes the k-th mode contributes to a scan
ModeCodes(k) ==
    IF ModeFailed(fn_in.answers[k], ScanModes[k]) THEN <<>>
    ELSE ParseDtcs(fn_in.answers[k], ScanModes[k])

----------------------------------------------------------------------------
\* The web application: the session and the pages gated on its keys

\* the keys the handlers store in the session
SessionKeys == {"vehicle_info", "vehicle_id", "diagnostic_data", "analysis_results",
                "obd_session_id"}

\* what a handler answers to a request that found the session holding before
Response(route, status, target, before) ==
    [route |-> route, status |-> status, target |-> target, before |-> before]

\* serve a request: the session becomes after and the response is recorded
Serve(route, status, target, after) ==
    /\ fn_pc = "serving"
    /\ fn_out' = Response(route, status, target, fn_in)
    /\ fn_in' = after
    /\ UNCHANGED <<fn_pc, connVars, callVars>>

\* a new browser: empty session, no request served yet
InitWeb ==
    /\ ConnInit /\ port = DevicePath
    /\ fn_pc = "serving"
    /\ fn_in = {}
    /\ fn_out = Response("none", "none", "none", {})

\* POST /vehicle-info
vehicle_info == Serve("vehicle_info", "redirect", "diagnostic", fn_in \cup {"vehicle_info"})

\* GET /diagnostic
diagnostic ==
    IF "vehicle_info" \notin fn_in
    THEN Serve("diagnostic", "redirect", "index", fn_in)
    ELSE Serve("diagnostic", "render", "diagnostic.html", fn_in)

\* POST /process-image: no image, a processed image, or an error while processing
process_image_route ==
    \/ Serve("process_image_route", "json 400", "error", fn_in)
    \/ Serve("process_image_route", "json 200", "results", fn_in \cup {"diagnostic_data"})
    \/ Serve("process_image_route", "json 500", "error", fn_in)

\* POST /analyze
analyze ==
    IF "diagnostic_data" \notin fn_in
    THEN Serve("analyze", "redirect", "diagnostic", fn_in)
    ELSE Serve("analyze", "redirect", "results", fn_in \cup {"analysis_results"})

\* GET /results
results ==
    IF "analysis_results" \notin fn_in
    THEN Serve("results", "redirect", "diagnostic", fn_in)
    ELSE Serve("results", "render", "results.html", fn_in)

\* mutant: only the vehicle form is forgotten
resetVehicleInfoOnly == Serve("reset", "redirect", "index", fn_in \ {"vehicle_info"})

\* GET or POST /reset
reset == Serve("reset", "redirect", "index", {})

\* /obd2/connect: GET renders the form, POST stores the vehicle
obd2_connect ==
    \/ Serve("obd2_connect", "render", "obd2/connect.html", fn_in)
    \/ Serve("obd2_connect", "redirect", "obd2_dashboard",
             fn_in \cup {"vehicle_info", "vehicle_id"})

\* GET /obd2/dashboard: the vehicle of the session may be gone from the database
obd2_dashboard ==
    IF "vehicle_id" \notin fn_in
    THEN Serve("obd2_dashboard", "redirect", "obd2_connect", fn_in)
    ELSE \/ Serve("obd2_dashboard", "redirect", "obd2_connect", fn_in)
         \/ Serve("obd2_dashboard", "render", "obd2/dashboard.html", fn_in)

\* GET /obd2/scan renders the scan page; POST fails before a diagnostic session is
\* stored, or stores one and then fails to reach the vehicle or goes on to scan it
obd2_scan ==
    \/ IF "vehicle_id" \notin fn_in
       THEN Serve("obd2_scan", "redirect", "obd2_connect", fn_in)
       ELSE \/ Serve("obd2_scan", "redirect", "obd2_connect", fn_in)
            \/ Serve("obd2_scan", "render", "obd2/scan.html", fn_in)
    \/ IF "vehicle_id" \notin fn_in
       THEN Serve("obd2_scan", "json 400", "error", fn_in)
       ELSE \/ Serve("obd2_scan", "json 500", "error", fn_in)
            \/ Serve("obd2_scan", "json 500", "error", fn_in \cup {"obd_session_id"})
            \/ Serve("obd2_scan", "json 200", "results", fn_in \cup {"obd_session_id"})

NextWeb ==
    \/ vehicle_info
    \/ diagnostic
    \/ process_image_route
    \/ analyze
    \/ results
    \/ reset
    \/ obd2_connect
    \/ obd2_dashboard
    \/ obd2_scan

SpecWeb == InitWeb /\ [][NextWeb]_vars

\* the pages that show a vehicle, and the session key each of them is gated on
GatedOn ==
    [route \in {"diagnostic", "obd2_dashboard"} |->
        IF route = "diagnostic" THEN "vehicle_info" ELSE "vehicle_id"]

\* C26: a request to /reset, whatever the session held, leaves the session without
\* vehicle_info, without vehicle_id and without any other key, and is answered by a
\* redirect; while the key a page is gated on is not in the session, a request for
\* that page is answered by a redirect and the page is not rendered.
C26_ResetClearsSession ==
    /\ fn_out.route = "reset" => (fn_in = {} /\ fn_out.status = "redirect")
    /\ \A route \in DOMAIN GatedOn :
           (fn_out.route = route /\ GatedOn[route] \notin fn_in)
               => fn_out.status = "redirect"

\* a /reset that found both vehicle keys in the session
C26_Witness ==
    /\ fn_out.route = "reset"
    /\ {"vehicle_info", "vehicle_id"} \subseteq fn_out.before
    /\ fn_in = {}

----------------------------------------------------------------------------
\* The order of connect(), payloads holding 7F, requests without a connection

\* everything connect() can write, in the order it writes it
ConnectOrder ==
    <<ATZ, ATE0, ATL0, ATS0, ATH0, ATAT1, ATSP0, Probe0100, ATDP>> \o RangeCommands

\* the position of the 0100 probe in what connect() writes
ProbePosition == Len(<<ATZ>> \o ConfigCommands) + 1

\* the probe failed: its response says NO DATA or reports an error
FailedProbe(response) == Contains(response, NO_DATA) \/ Contains(response, ERROR)

\* C27: connect() writes its commands in the order ATZ, ATE0, ATL0, ATS0, ATH0, ATAT1,
\* ATSP0, 0100, and writes ATDP and then the range probes only after a probe that did
\* not fail; the connected flag turns True only in a connect() that has stored the
\* answer to ATDP as the protocol and has run discovery over all the ranges.
C27_ConnectOrder ==
    [][/\ op'.name = "connect" =>
              /\ sent' = SubSeq(ConnectOrder, 1, Len(sent'))
              /\ Len(sent') \in {0, ProbePosition, Len(ConnectOrder)}
              /\ Len(sent') > ProbePosition => ~FailedProbe(got'[ProbePosition])
       /\ (connected' /\ ~connected) =>
              /\ op'.name = "connect"
              /\ Len(sent') = Len(ConnectOrder)
              /\ protocol' = got'[ProbePosition + 1]
              /\ last_discovery' = SubSeq(got', ProbePosition + 2, Len(got'))
              /\ supported_pids' = supported_pids \cup LoopPids(last_discovery')]_vars

\* a connect() that ran to the end on a connector that was not connected
C27_Witness ==
    /\ op.name = "connect"
    /\ connected
    /\ ret = TRUE
    /\ sent = ConnectOrder
    /\ protocol = got[ProbePosition + 1]

\* a well-formed answer to a Mode 01 request: 41, the PID and the data bytes, as the
\* adapter prints them with spaces off or on
Mode01Response(pid, bytes, spaces) ==
    LET line == <<"4","1">> \o pid \o Concat([k \in 1..Len(bytes) |-> Hex2(bytes[k])])
    IN  IF spaces THEN Spaced(line) ELSE line

InitParse ==
    /\ ConnInit /\ port = DevicePath
    /\ fn_pc = "input"
    /\ fn_out = None
    /\ \E spaces \in BOOLEAN :
          \/ \E pid \in {PID_COOLANT_TEMP, PID_SPEED}, A \in Bytes :
                fn_in = [pid |-> pid, bytes |-> <<A>>,
                         response |-> Mode01Response(pid, <<A>>, spaces)]
          \/ \E A \in ByteSamples, B \in Bytes :
                fn_in = [pid |-> PID_RPM, bytes |-> <<A, B>>,
                         response |-> Mode01Response(PID_RPM, <<A, B>>, spaces)]

ParsePidResponseCall ==
    /\ fn_pc = "input"
    /\ fn_out' = ParsePidResponse(fn_in.response, fn_in.pid)
    /\ fn_pc' = "done"
    /\ UNCHANGED <<fn_in, connVars, callVars>>

NextParse == ParsePidResponseCall

SpecParse == InitParse /\ [][NextParse]_vars

\* C29: from every well-formed Mode 01 response, 41 and the PID followed by hex data
\* bytes and no adapter error text, the parser yields the data payload, whatever the
\* values of the bytes, a payload whose hex digits hold 7F included.
C29_PayloadOfEveryByte ==
    fn_pc = "done" =>
        fn_out = Concat([k \in 1..Len(fn_in.bytes) |-> Hex2(fn_in.bytes[k])])

\* the operations that ask the vehicle for something
VehicleRequests ==
    {"read_dtcs", "get_vehicle_info", "read_pid", "read_all_sensor_data", "clear_dtcs",
     "get_freeze_frame_data"}

\* the last call returned the empty result of its operation: False from clear_dtcs, an
\* empty list from read_dtcs, None from read_pid, an empty dictionary from the others
EmptyResult ==
    CASE op.name = "clear_dtcs" -> ret = FALSE
      [] op.name \in {"read_dtcs", "read_pid"} -> ret = <<>>
      [] OTHER -> DOMAIN ret = {}

\* C30: no vehicle request is written to the link unless the connector is connected:
\* while connected is False (never connected, disconnected, or after a connect() that
\* opened the link and failed the probe) each of read_dtcs, get_vehicle_info,
\* read_pid, read_all_sensor_data, clear_dtcs and get_freeze_frame_data returns its
\* empty result and sends nothing.
C30_NoRequestUnlessConnected ==
    (op.name \in VehicleRequests /\ ~connected) => (sent = <<>> /\ EmptyResult)

====
